---------------------------- MODULE Spec2Model ----------------------------
(***************************************************************************)
(* Model of the creative-agency multi-agent pipeline:                      *)
(*   - ollama_client.py : extract_final_response, chat_llm                 *)
(*   - agents/graph.py  : the four specialist agents, the supervisor, the  *)
(*                        linear graph and run_agent_analysis              *)
(*                                                                         *)
(* Text.  A Python str is a sequence of tokens.  A token is one character  *)
(* ("a", " ", "\n", "{", ...) or an indivisible chunk of text that the     *)
(* code only ever moves around as a whole (a literal of the source, one of *)
(* the two deliberation markers).  The markers "<think>" and "</think>"    *)
(* cannot overlap themselves or each other, so treating each as one token  *)
(* loses no case of `in` or `split`.                                       *)
(***************************************************************************)
EXTENDS Integers, Sequences, FiniteSets, TLC

VARIABLES
    model,      \* the model id of the call(s) under study (DEFAULT_MODEL or an argument)
    content,    \* extract harness: the raw content handed to extract_final_response
    extracted,  \* extract harness: [done, v], the value extract_final_response returned
    chat_pc,    \* chat_llm: "loop" (in the for loop), "returned", "raised", or "idle"
    attempt,    \* chat_llm: the loop variable `attempt`
    sleeps,     \* chat_llm: the delays passed to time.sleep so far, in order
    posts,      \* chat_llm: the number of requests.post calls made so far
    chat_out,   \* chat_llm: the value returned, or the str() of the exception raised
    last_http,  \* chat_llm: the outcome of the latest requests.post
    pc,         \* run_agent_analysis: the node about to run, "END", "done", "raised" or "idle"
    state,      \* run_agent_analysis: the AgentState of the run
    stages,     \* run_agent_analysis: the nodes that have run, in order
    ret,        \* run_agent_analysis: the value returned
    gateway_log, \* the chat_llm calls of the run: [stage, k, v], in order
    sent,       \* the messages of the latest chat_llm call of the run
    search_log, \* the search_recent_trends calls of the run, in order
    reply,      \* agent harness: the text chat_llm returned to the agent
    agent_out,  \* agent harness: [stage, out, trend_results], the agent's output record
    app_pc,     \* app.py: "input", "ready", "rejected", "reactions", "complete", "failed" or "idle"
    app_personas,    \* app.py: the personas handed to validate_inputs and run_analysis
    app_description, \* app.py: the product description handed to them
    validation, \* app.py: [done, ok, msg], what validate_inputs returned
    app_reactions,   \* run_analysis: the list persona_reactions
    reaction_calls,  \* run_analysis: the generate_persona_reaction calls made, in order,
                     \* each with what it did (k, v) and what its chat_llm call did (gateway)
    invoked,    \* run_analysis: [done, ...], the arguments of its run_agent_analysis call
    order_pc,     \* unordered specialists: per specialist "waiting", "running" or "merged"
    order_state,  \* unordered specialists: the run state they read and merge into
    order_update, \* unordered specialists: per specialist the update it has returned
    order_sent,   \* unordered specialists: per specialist the conversation it sent
    order_search, \* unordered specialists: what the search call does
    order_seed,   \* unordered specialists: which reply function the gateway is
    order_log,    \* unordered specialists: [stage, overlap], the starts in order
    runs_pc,      \* two runs: per run "idle", the node about to run, "END" or "done"
    runs_ref,     \* two runs: per run the address of its AgentState (0: none yet)
    runs_heap,    \* two runs: the AgentState objects, by address
    runs_ret,     \* two runs: per run the value run_agent_analysis returned
    runs_overlap, \* two runs: per run, whether it ran a stage while the other was under way
    runs_env      \* two runs: [inputs, search, seed], the arguments of the runs, what the
                  \* search call does and which reply function the gateway is

extractVars == <<content, extracted>>
chatVars == <<chat_pc, attempt, sleeps, posts, chat_out, last_http>>
runVars == <<pc, state, stages, ret, gateway_log, sent, search_log>>
agentVars == <<reply, agent_out>>
appVars == <<app_pc, app_personas, app_description, validation, app_reactions,
             reaction_calls, invoked>>
orderVars == <<order_pc, order_state, order_update, order_sent, order_search, order_seed,
               order_log>>
runsVars == <<runs_pc, runs_ref, runs_heap, runs_ret, runs_overlap, runs_env>>
vars == <<model, extractVars, chatVars, runVars, agentVars, appVars, orderVars, runsVars>>

---------------------------------------------------------------------------
(* Bounds of the model                                                     *)

\* longest raw content (in tokens) enumerated for extract_final_response
MaxLen == 4

\* most personas (and persona reactions) of a run
MaxPersonas == 2

\* most lines of a model reply handed to one agent
MaxLines == 6

\* longest product description body (in characters) handed to validate_inputs
MaxDescription == 21

---------------------------------------------------------------------------
(* Python str operations on token sequences                                *)

think_start == "<think>"
think_end == "</think>"

\* the characters str.strip() removes
Whitespace == {" ", "\n"}

RECURSIVE LStrip(_)
LStrip(s) ==
    IF s # <<>> /\ Head(s) \in Whitespace THEN LStrip(Tail(s)) ELSE s

RECURSIVE RStrip(_)
RStrip(s) ==
    IF s # <<>> /\ s[Len(s)] \in Whitespace
    THEN RStrip(SubSeq(s, 1, Len(s) - 1))
    ELSE s

\* s.strip()
Strip(s) == RStrip(LStrip(s))

\* tok in s
Contains(s, tok) == \E i \in 1..Len(s) : s[i] = tok

\* the positions of tok in s
Occurrences(s, tok) == {i \in 1..Len(s) : s[i] = tok}

Min(S) == CHOOSE x \in S : \A y \in S : x <= y
Max(S) == CHOOSE x \in S : \A y \in S : x >= y

\* s.split(tok, 1)[1] when tok is in s: everything after the FIRST tok
AfterFirst(s, tok) ==
    SubSeq(s, Min(Occurrences(s, tok)) + 1, Len(s))

\* s.split(tok)[-1] when tok is in s: everything after the LAST tok
AfterLast(s, tok) ==
    SubSeq(s, Max(Occurrences(s, tok)) + 1, Len(s))

\* s.lower(), for the tokens model ids are made of
LowerTok(t) == IF t = "DeepSeek-R1" THEN "deepseek-r1" ELSE t
Lower(s) == [i \in 1..Len(s) |-> LowerTok(s[i])]

---------------------------------------------------------------------------
(* ollama_client.extract_final_response                                    *)

\* "deepseek-r1" in model.lower()
IsReasoningModel(m) == Contains(Lower(m), "deepseek-r1")

\* a variant that returns the text after the first closing marker without
\* testing that it is non-empty (the `if final_response:` of lines 37 and 49
\* dropped)
extract_final_response_NoEmptyTest(c, m) ==
    IF IsReasoningModel(m) /\ Contains(c, think_end)
    THEN Strip(AfterFirst(c, think_end))
    ELSE Strip(c)

extract_final_response(c, m) ==
    IF IsReasoningModel(m)
    THEN IF Contains(c, think_end) /\ Strip(AfterFirst(c, think_end)) # <<>>
         THEN Strip(AfterFirst(c, think_end))
         ELSE IF Contains(c, think_start) /\ Contains(c, think_end)
                 /\ Strip(AfterLast(c, think_end)) # <<>>
              THEN Strip(AfterLast(c, think_end))
              ELSE Strip(c)
    ELSE Strip(c)

---------------------------------------------------------------------------
(* ollama_client.chat_llm                                                  *)

max_retries == 10
base_delay == 1

\* What one pass through the try block can meet (the HTTP server and the
\* requests library are the environment):
\*   k = "transport": a requests.exceptions.RequestException is raised (a
\*                    connection error, the per-attempt timeout), str() = text
\*   k = "exception": any other exception is raised, str() = text
\*   k = "response" : requests.post returns; status is response.status_code,
\*                    text is response.text, and response.json() is a mapping
\*                    that has a "message" key iff has_message, whose value
\*                    has a "content" key iff has_content, holding content
HttpTransport(msg) ==
    [k |-> "transport", status |-> 0, text |-> msg,
     has_message |-> FALSE, has_content |-> FALSE, content |-> <<>>]

HttpException(msg) ==
    [k |-> "exception", status |-> 0, text |-> msg,
     has_message |-> FALSE, has_content |-> FALSE, content |-> <<>>]

HttpResponse(status, text, has_message, has_content, c) ==
    [k |-> "response", status |-> status, text |-> text,
     has_message |-> has_message, has_content |-> has_content, content |-> c]

NoHttp ==
    [k |-> "none", status |-> 0, text |-> <<>>,
     has_message |-> FALSE, has_content |-> FALSE, content |-> <<>>]

\* a lookup that takes the content without testing for the keys
raw_content_Unchecked(o) == o.content

\* result.get("message", {}).get("content", "")
raw_content(o) ==
    IF o.has_message /\ o.has_content THEN o.content ELSE <<>>

RECURSIVE Pow2(_)
Pow2(n) == IF n = 0 THEN 1 ELSE 2 * Pow2(n - 1)

\* a delay that grows by one instead of doubling
backoff_delay_Linear(att) == base_delay * (att + 1)

\* delay = base_delay * (2 ** attempt)
backoff_delay(att) == base_delay * Pow2(att)

\* a loop that gives up one attempt early
last_attempt_Early(att) == att = max_retries - 2

\* attempt == max_retries - 1
last_attempt(att) == att = max_retries - 1

\* a status error that is retried like a transport error
status_error_Retried(att, o) ==
    [k |-> "sleep", v |-> <<>>, delay |-> base_delay * Pow2(att)]

\* raise Exception(f"HTTP {response.status_code}: {response.text}"): not a
\* RequestException, so the except clause does not catch it
status_error(att, o) ==
    [k |-> "raise", v |-> <<"HTTP ", ToString(o.status), ": ">> \o o.text,
     delay |-> 0]

\* an iteration that tries again when a 200 response has no content
chat_iteration_RetriesEmpty(att, o, m) ==
    IF o.k = "response"
    THEN IF o.status = 200 /\ raw_content(o) = <<>> /\ ~last_attempt(att)
         THEN [k |-> "sleep", v |-> <<>>, delay |-> backoff_delay(att)]
         ELSE IF o.status = 200
         THEN [k |-> "return", v |-> extract_final_response(raw_content(o), m),
               delay |-> 0]
         ELSE status_error(att, o)
    ELSE IF o.k = "transport"
    THEN IF last_attempt(att)
         THEN [k |-> "raise",
               v |-> <<"Failed to connect to Ollama after ",
                       ToString(max_retries), " attempts: ">> \o o.text,
               delay |-> 0]
         ELSE [k |-> "sleep", v |-> <<>>, delay |-> backoff_delay(att)]
    ELSE [k |-> "raise", v |-> o.text, delay |-> 0]

\* an iteration whose except clause catches every exception
chat_iteration_CatchesAll(att, o, m) ==
    IF o.k = "response"
    THEN IF o.status = 200
         THEN [k |-> "return", v |-> extract_final_response(raw_content(o), m),
               delay |-> 0]
         ELSE status_error(att, o)
    ELSE IF o.k \in {"transport", "exception"}
    THEN IF last_attempt(att)
         THEN [k |-> "raise",
               v |-> <<"Failed to connect to Ollama after ",
                       ToString(max_retries), " attempts: ">> \o o.text,
               delay |-> 0]
         ELSE [k |-> "sleep", v |-> <<>>, delay |-> backoff_delay(att)]
    ELSE [k |-> "raise", v |-> o.text, delay |-> 0]

\* an iteration that takes every 2xx status as success
chat_iteration_Any2xx(att, o, m) ==
    IF o.k = "response"
    THEN IF o.status \in 200..299
         THEN [k |-> "return", v |-> extract_final_response(raw_content(o), m),
               delay |-> 0]
         ELSE status_error(att, o)
    ELSE IF o.k = "transport"
    THEN IF last_attempt(att)
         THEN [k |-> "raise",
               v |-> <<"Failed to connect to Ollama after ",
                       ToString(max_retries), " attempts: ">> \o o.text,
               delay |-> 0]
         ELSE [k |-> "sleep", v |-> <<>>, delay |-> backoff_delay(att)]
    ELSE [k |-> "raise", v |-> o.text, delay |-> 0]

\* One iteration of `for attempt in range(max_retries)` that meets outcome o:
\* [k |-> "return", v], [k |-> "raise", v |-> str(e)] or
\* [k |-> "sleep", delay] (the loop goes on after time.sleep(delay)).
chat_iteration(att, o, m) ==
    IF o.k = "response"
    THEN IF o.status = 200
         THEN [k |-> "return", v |-> extract_final_response(raw_content(o), m),
               delay |-> 0]
         ELSE status_error(att, o)
    ELSE IF o.k = "transport"
    THEN IF last_attempt(att)
         THEN [k |-> "raise",
               v |-> <<"Failed to connect to Ollama after ",
                       ToString(max_retries), " attempts: ">> \o o.text,
               delay |-> 0]
         ELSE [k |-> "sleep", v |-> <<>>, delay |-> backoff_delay(att)]
    ELSE [k |-> "raise", v |-> o.text, delay |-> 0]

\* The statement after the loop
MaxRetriesExceeded == [k |-> "raise", v |-> <<"Max retries exceeded">>, delay |-> 0]

\* chat_llm as a function of what the successive attempts meet: script[i] is
\* the outcome of attempt i - 1.
RECURSIVE chat_loop(_, _, _)
chat_loop(script, m, att) ==
    IF att >= max_retries
    THEN MaxRetriesExceeded
    ELSE LET r == chat_iteration(att, script[att + 1], m)
         IN  IF r.k = "sleep" THEN chat_loop(script, m, att + 1) ELSE r

chat_llm(script, m) == chat_loop(script, m, 0)

---------------------------------------------------------------------------
(* Python values.  Every value carries its type in t and its payload, always *)
(* a sequence, in v:                                                        *)
(*   str  : v is the token sequence                                         *)
(*   num  : v is <<literal>>          null : v is <<>>                      *)
(*   list : v is the sequence of item values                                *)
(*   dict : v is the sequence of [key, val] pairs in insertion order, key a *)
(*          token sequence                                                  *)

PyStr(s) == [t |-> "str", v |-> s]
PyNum(lit) == [t |-> "num", v |-> <<lit>>]
PyNull == [t |-> "null", v |-> <<>>]
PyList(items) == [t |-> "list", v |-> items]
PyDict(pairs) == [t |-> "dict", v |-> pairs]

\* a list of str from a sequence of token sequences
PyStrList(ss) == PyList([i \in 1..Len(ss) |-> PyStr(ss[i])])

\* d[key] = val on the pairs of a dict: a present key keeps its place
DictSet(pairs, key, val) ==
    IF \E i \in 1..Len(pairs) : pairs[i].key = key
    THEN [i \in 1..Len(pairs) |->
            IF pairs[i].key = key THEN [key |-> key, val |-> val] ELSE pairs[i]]
    ELSE Append(pairs, [key |-> key, val |-> val])

\* the keys of a dict
DictKeys(d) == {d.v[i].key : i \in 1..Len(d.v)}

---------------------------------------------------------------------------
(* json.loads on a token sequence.  The JSON tokens are the punctuation      *)
(* characters, whitespace, and whole literals: a string literal (with its   *)
(* quotes), a number literal, null.  Any other token makes the text invalid. *)

JsonStringTokens == {"\"k\"", "\"v\"", "\"w\""}
JsonNumberTokens == {"1"}

\* the str a string literal denotes
JsonStringText(tok) ==
    IF tok = "\"k\"" THEN <<"k">> ELSE IF tok = "\"v\"" THEN <<"v">> ELSE <<"w">>

RECURSIVE SkipWs(_, _)
SkipWs(s, i) ==
    IF i <= Len(s) /\ s[i] \in Whitespace THEN SkipWs(s, i + 1) ELSE i

JsonFail == [ok |-> FALSE, val |-> PyNull, next |-> 0]
JsonOk(val, next) == [ok |-> TRUE, val |-> val, next |-> next]

\* is s[i] the token tok
At(s, i, tok) == i <= Len(s) /\ s[i] = tok

RECURSIVE ParseValue(_, _)
RECURSIVE ParseElements(_, _, _)
RECURSIVE ParseMembers(_, _, _)

\* the array elements from position i on, after items
ParseElements(s, i, items) ==
    LET r == ParseValue(s, i)
        j == SkipWs(s, r.next)
    IN  IF ~r.ok THEN JsonFail
        ELSE IF At(s, j, ",") THEN ParseElements(s, j + 1, Append(items, r.val))
        ELSE IF At(s, j, "]") THEN JsonOk(PyList(Append(items, r.val)), j + 1)
        ELSE JsonFail

\* the object members from position i on, after pairs
ParseMembers(s, i, pairs) ==
    LET k == SkipWs(s, i)
        c == SkipWs(s, k + 1)
        r == ParseValue(s, c + 1)
        j == SkipWs(s, r.next)
    IN  IF ~(k <= Len(s) /\ s[k] \in JsonStringTokens) THEN JsonFail
        ELSE IF ~At(s, c, ":") THEN JsonFail
        ELSE IF ~r.ok THEN JsonFail
        ELSE LET more == DictSet(pairs, JsonStringText(s[k]), r.val)
             IN  IF At(s, j, ",") THEN ParseMembers(s, j + 1, more)
                 ELSE IF At(s, j, "}") THEN JsonOk(PyDict(more), j + 1)
                 ELSE JsonFail

\* one JSON value starting at or after position i
ParseValue(s, i) ==
    LET j == SkipWs(s, i)
    IN  IF j > Len(s) THEN JsonFail
        ELSE IF s[j] \in JsonNumberTokens THEN JsonOk(PyNum(s[j]), j + 1)
        ELSE IF s[j] = "null" THEN JsonOk(PyNull, j + 1)
        ELSE IF s[j] \in JsonStringTokens
             THEN JsonOk(PyStr(JsonStringText(s[j])), j + 1)
        ELSE IF s[j] = "["
             THEN IF At(s, SkipWs(s, j + 1), "]")
                  THEN JsonOk(PyList(<<>>), SkipWs(s, j + 1) + 1)
                  ELSE ParseElements(s, j + 1, <<>>)
        ELSE IF s[j] = "{"
             THEN IF At(s, SkipWs(s, j + 1), "}")
                  THEN JsonOk(PyDict(<<>>), SkipWs(s, j + 1) + 1)
                  ELSE ParseMembers(s, j + 1, <<>>)
        ELSE JsonFail

\* json.loads(s): ok is FALSE where Python raises json.JSONDecodeError
json_loads(s) ==
    LET r == ParseValue(s, 1)
    IN  IF r.ok /\ SkipWs(s, r.next) > Len(s) THEN r ELSE JsonFail

---------------------------------------------------------------------------
(* Lines, joins and renderings                                              *)

\* s.split('\n')
RECURSIVE SplitLines(_)
SplitLines(s) ==
    IF ~Contains(s, "\n") THEN <<s>>
    ELSE LET i == Min(Occurrences(s, "\n"))
         IN  <<SubSeq(s, 1, i - 1)>> \o SplitLines(SubSeq(s, i + 1, Len(s)))

\* [l for l in lines if l]
RECURSIVE NonEmptyOnly(_)
NonEmptyOnly(ss) ==
    IF ss = <<>> THEN <<>>
    ELSE (IF Head(ss) # <<>> THEN <<Head(ss)>> ELSE <<>>) \o NonEmptyOnly(Tail(ss))

\* [line.strip() for line in response.split('\n') if line.strip()]
NonEmptyLines(s) ==
    LET lines == SplitLines(s)
    IN  NonEmptyOnly([i \in 1..Len(lines) |-> Strip(lines[i])])

\* sep.join(parts)
RECURSIVE Join(_, _)
Join(sep, parts) ==
    IF parts = <<>> THEN <<>>
    ELSE IF Len(parts) = 1 THEN parts[1]
    ELSE parts[1] \o sep \o Join(sep, Tail(parts))

\* seq[:n]
Take(ss, n) == SubSeq(ss, 1, IF Len(ss) < n THEN Len(ss) ELSE n)

\* the text between the quotes of a rendered str: a newline is escaped
EscapeTok(tok) == IF tok = "\n" THEN "\\n" ELSE tok
Escape(s) == [i \in 1..Len(s) |-> EscapeTok(s[i])]

RECURSIVE Spaces(_)
Spaces(n) == IF n <= 0 THEN <<>> ELSE <<" ">> \o Spaces(n - 1)

\* json.dumps(x, indent=2), lvl the nesting depth
RECURSIVE JsonDumpsAt(_, _)
JsonDumpsAt(x, lvl) ==
    IF x.t = "str" THEN <<"\"">> \o Escape(x.v) \o <<"\"">>
    ELSE IF x.t = "num" THEN x.v
    ELSE IF x.t = "null" THEN <<"null">>
    ELSE IF x.t = "list"
    THEN IF x.v = <<>> THEN <<"[", "]">>
         ELSE <<"[", "\n">>
              \o Join(<<",", "\n">>,
                      [i \in 1..Len(x.v) |->
                          Spaces(2 * (lvl + 1)) \o JsonDumpsAt(x.v[i], lvl + 1)])
              \o <<"\n">> \o Spaces(2 * lvl) \o <<"]">>
    ELSE IF x.v = <<>> THEN <<"{", "}">>
         ELSE <<"{", "\n">>
              \o Join(<<",", "\n">>,
                      [i \in 1..Len(x.v) |->
                          Spaces(2 * (lvl + 1))
                          \o <<"\"">> \o Escape(x.v[i].key) \o <<"\"", ":", " ">>
                          \o JsonDumpsAt(x.v[i].val, lvl + 1)])
              \o <<"\n">> \o Spaces(2 * lvl) \o <<"}">>

json_dumps(x) == JsonDumpsAt(x, 0)

\* str(x) of a value inside an f-string: Python's repr of dicts and lists
\* (no token of the model holds a quote, so repr always picks single quotes)
RECURSIVE PyRepr(_)
PyRepr(x) ==
    IF x.t = "str" THEN <<"'">> \o Escape(x.v) \o <<"'">>
    ELSE IF x.t = "num" THEN x.v
    ELSE IF x.t = "null" THEN <<"None">>
    ELSE IF x.t = "list"
    THEN <<"[">>
         \o Join(<<",", " ">>, [i \in 1..Len(x.v) |-> PyRepr(x.v[i])])
         \o <<"]">>
    ELSE <<"{">>
         \o Join(<<",", " ">>,
                 [i \in 1..Len(x.v) |->
                     <<"'">> \o Escape(x.v[i].key) \o <<"'", ":", " ">>
                     \o PyRepr(x.v[i].val)])
         \o <<"}">>

---------------------------------------------------------------------------
(* agents/graph.py: what an agent hands back to the graph                   *)

\* the node function returned this update (a mapping from state keys to values)
Returned(update) == [exc |-> FALSE, err |-> <<>>, update |-> update]

\* the node function raised an exception whose str() is err
Raised(err) == [exc |-> TRUE, err |-> err, update |-> <<>>]

\* chr(10).join([f"- {x}" for x in items])
Bullets(items) ==
    Join(<<"\n">>, [i \in 1..Len(items) |-> <<"- ">> \o items[i]])

Conversation(system, user) ==
    <<[role |-> "system", content |-> <<system>>],
      [role |-> "user", content |-> user]>>

\* the f-string of the branding, marketing and product agents, stripped
PersonaContext(st, closing) ==
    Strip(<<"\n", "Product/Brand: ">> \o st.product_description
          \o <<"\n", "\n", "Persona Reactions:", "\n">>
          \o Bullets(st.persona_reactions)
          \o <<"\n", "\n", closing, "\n", " ">>)

\* {key: [error marker, ...]} records of the except branches
OneList(key, items) ==
    PyDict(<<[key |-> <<key>>, val |-> PyStrList(items)]>>)

TwoLists(keyA, itemsA, keyB, itemsB) ==
    PyDict(<<[key |-> <<keyA>>, val |-> PyStrList(itemsA)],
             [key |-> <<keyB>>, val |-> PyStrList(itemsB)]>>)

---------------------------------------------------------------------------
(* branding_agent                                                           *)

branding_messages(st) ==
    Conversation("SYSTEM_BRANDING_AGENT",
        PersonaContext(st, "As a senior brand strategist [...] consulting firm."))

\* lines[:5]
AdviceCap == 5

\* [l for l in lines if not l.startswith('{')]
RECURSIVE NotBraceOnly(_)
NotBraceOnly(ss) ==
    IF ss = <<>> THEN <<>>
    ELSE (IF Head(Head(ss)) # "{" THEN <<Head(ss)>> ELSE <<>>)
         \o NotBraceOnly(Tail(ss))

\* a fallback that caps the lines at 5 before it discards the brace lines
branding_parse_CapFirst(response) ==
    IF json_loads(response).ok
    THEN json_loads(response).val
    ELSE OneList("branding_advice",
                 NotBraceOnly(Take(NonEmptyLines(response), AdviceCap)))

\* the try/except json.JSONDecodeError around json.loads(response)
branding_parse(response) ==
    IF json_loads(response).ok
    THEN json_loads(response).val
    ELSE OneList("branding_advice",
                 Take(NotBraceOnly(NonEmptyLines(response)), AdviceCap))

\* an agent whose except branch is missing: the error of chat_llm propagates
branding_agent_NoExcept(st, gw) ==
    IF gw.k = "raise"
    THEN Raised(gw.v)
    ELSE Returned("branding_output" :> branding_parse(gw.v))

\* gw is what chat_llm(messages) did: [k |-> "return", v] or [k |-> "raise", v]
branding_agent(st, gw) ==
    IF gw.k = "raise"
    THEN Returned("branding_output" :>
            OneList("branding_advice", <<<<"Error in branding analysis">>, gw.v>>))
    ELSE Returned("branding_output" :> branding_parse(gw.v))

---------------------------------------------------------------------------
(* marketing_agent and product_agent                                        *)

\* a marketing prompt that also quotes the branding record
marketing_messages_ReadsBranding(st) ==
    Conversation("SYSTEM_MARKETING_AGENT",
        PersonaContext(st, "As a senior marketing strategist [...] marketing team.")
        \o json_dumps(st.branding_output))

marketing_messages(st) ==
    Conversation("SYSTEM_MARKETING_AGENT",
        PersonaContext(st, "As a senior marketing strategist [...] marketing team."))

\* a product prompt that also quotes the marketing record
product_messages_ReadsMarketing(st) ==
    Conversation("SYSTEM_PRODUCT_AGENT",
        PersonaContext(st, "As a senior product manager [...] product team.")
        \o json_dumps(st.marketing_output))

product_messages(st) ==
    Conversation("SYSTEM_PRODUCT_AGENT",
        PersonaContext(st, "As a senior product manager [...] product team."))

\* a split that rounds the midpoint up
TwoListFallback_RoundUp(response, keyA, noneA, keyB, noneB) ==
    LET lines == NonEmptyLines(response)
        half == (Len(lines) + 1) \div 2
    IN  TwoLists(keyA, IF lines # <<>> THEN SubSeq(lines, 1, half) ELSE <<<<noneA>>>>,
                 keyB, IF lines # <<>> THEN SubSeq(lines, half + 1, Len(lines))
                                       ELSE <<<<noneB>>>>)

\* lines[:len(lines)//2] and lines[len(lines)//2:], or the placeholders
TwoListFallback(response, keyA, noneA, keyB, noneB) ==
    LET lines == NonEmptyLines(response)
        half == Len(lines) \div 2
    IN  TwoLists(keyA, IF lines # <<>> THEN SubSeq(lines, 1, half) ELSE <<<<noneA>>>>,
                 keyB, IF lines # <<>> THEN SubSeq(lines, half + 1, Len(lines))
                                       ELSE <<<<noneB>>>>)

marketing_parse(response) ==
    IF json_loads(response).ok
    THEN json_loads(response).val
    ELSE TwoListFallback(response,
                         "marketing_plan", "No marketing plan generated",
                         "pricing_tips", "No pricing tips generated")

marketing_agent(st, gw) ==
    IF gw.k = "raise"
    THEN Returned("marketing_output" :>
            TwoLists("marketing_plan", <<<<"Error in marketing analysis">>>>,
                     "pricing_tips", <<gw.v>>))
    ELSE Returned("marketing_output" :> marketing_parse(gw.v))

product_parse(response) ==
    IF json_loads(response).ok
    THEN json_loads(response).val
    ELSE TwoListFallback(response,
                         "feature_gaps", "No feature gaps identified",
                         "quick_wins", "No quick wins identified")

product_agent(st, gw) ==
    IF gw.k = "raise"
    THEN Returned("product_output" :>
            TwoLists("feature_gaps", <<<<"Error in product analysis">>>>,
                     "quick_wins", <<gw.v>>))
    ELSE Returned("product_output" :> product_parse(gw.v))

---------------------------------------------------------------------------
(* trends_agent                                                             *)

\* state['product_description'][:100]
KeywordChars == 100

\* a search query that is the whole description
product_keywords_Whole(st) == st.product_description

product_keywords(st) == Take(st.product_description, KeywordChars)

\* search_recent_trends(product_keywords, days_back=90)
days_back == 90

\* what the search call did: it returned results (a list of str) or raised
SearchReturned(results) == [k |-> "return", err |-> <<>>, results |-> results]
SearchRaised(err) == [k |-> "raise", err |-> err, results |-> <<>>]

trends_context(st, trend_results) ==
    Strip(<<"\n", "Product/Brand: ">> \o st.product_description
          \o <<"\n", "\n", "Recent Trends Found:", "\n">>
          \o Bullets(trend_results)
          \o <<"\n", "\n",
               "Analyze how these trends relate to the product and personas.",
               "\n", " ">>)

trends_messages(st, trend_results) ==
    Conversation("SYSTEM_ONLINE_TRENDS_AGENT", trends_context(st, trend_results))

\* a fallback that keeps the model's text when the search found nothing
trends_parse_KeepsText(response, trend_results) ==
    IF json_loads(response).ok
    THEN json_loads(response).val
    ELSE OneList("trends", IF trend_results # <<>> THEN trend_results
                           ELSE NonEmptyLines(response))

\* the try/except json.JSONDecodeError around json.loads(response)
trends_parse(response, trend_results) ==
    IF json_loads(response).ok
    THEN json_loads(response).val
    ELSE OneList("trends", IF trend_results # <<>> THEN trend_results
                           ELSE <<<<"No recent trends found">>>>)

\* an except branch that drops the text of the error
trends_error_NoText(e) ==
    OneList("trends", <<<<"Error in trends analysis">>>>)

trends_error(e) ==
    OneList("trends", <<<<"Error in trends analysis">>, e>>)

\* so is what the search call did; gw what chat_llm did (it is not called when
\* the search call raised)
trends_agent(st, so, gw) ==
    IF so.k = "raise" THEN Returned("trends_output" :> trends_error(so.err))
    ELSE IF gw.k = "raise" THEN Returned("trends_output" :> trends_error(gw.v))
    ELSE Returned("trends_output" :> trends_parse(gw.v, so.results))

---------------------------------------------------------------------------
(* supervisor_agent                                                         *)

\* a synthesis prompt built before the trends record is there
synthesis_prompt_NoTrends(st) ==
    <<"\n", "Based on the following agent analyses, create a comprehensive markdown report:",
      "\n", "\n", "BRANDING ANALYSIS:", "\n">>
    \o json_dumps(st.branding_output)
    \o <<"\n", "\n", "MARKETING ANALYSIS:", "\n">>
    \o json_dumps(st.marketing_output)
    \o <<"\n", "\n", "PRODUCT ANALYSIS:", "\n">>
    \o json_dumps(st.product_output)
    \o <<"\n", "\n", "TRENDS ANALYSIS:", "\n">>
    \o json_dumps(PyDict(<<>>))
    \o <<"\n", "\n", "PERSONA REACTIONS:", "\n">>
    \o Bullets(st.persona_reactions)
    \o <<"\n", "\n", "PRODUCT CONTEXT:", "\n">>
    \o st.product_description
    \o <<"\n", "\n", "Create a report with: [...] bullet points.", "\n">>

\* SUPERVISOR_SYNTHESIS_PROMPT.format(...)
synthesis_prompt(st) ==
    <<"\n", "Based on the following agent analyses, create a comprehensive markdown report:",
      "\n", "\n", "BRANDING ANALYSIS:", "\n">>
    \o json_dumps(st.branding_output)
    \o <<"\n", "\n", "MARKETING ANALYSIS:", "\n">>
    \o json_dumps(st.marketing_output)
    \o <<"\n", "\n", "PRODUCT ANALYSIS:", "\n">>
    \o json_dumps(st.product_output)
    \o <<"\n", "\n", "TRENDS ANALYSIS:", "\n">>
    \o json_dumps(st.trends_output)
    \o <<"\n", "\n", "PERSONA REACTIONS:", "\n">>
    \o Bullets(st.persona_reactions)
    \o <<"\n", "\n", "PRODUCT CONTEXT:", "\n">>
    \o st.product_description
    \o <<"\n", "\n", "Create a report with: [...] bullet points.", "\n">>

supervisor_messages(st) ==
    Conversation("SYSTEM_SUPERVISOR", synthesis_prompt(st))

\* a fallback report that leaves out the trends record
fallback_report_NoTrends(st, e) ==
    Strip(<<"\n", "# Creative Agency Analysis Report", "\n", "\n",
            "## Executive Summary", "\n",
            "An error occurred during analysis synthesis: ">> \o e
          \o <<"\n", "\n", "## Error Details", "\n", "- Branding Analysis: ">>
          \o PyRepr(st.branding_output)
          \o <<"\n", "- Marketing Analysis: ">> \o PyRepr(st.marketing_output)
          \o <<"\n", "- Product Analysis: ">> \o PyRepr(st.product_output)
          \o <<"\n", "\n", "Please check the system logs and try again.",
               "\n", " ">>)

\* the f-string of the except branch, stripped
fallback_report(st, e) ==
    Strip(<<"\n", "# Creative Agency Analysis Report", "\n", "\n",
            "## Executive Summary", "\n",
            "An error occurred during analysis synthesis: ">> \o e
          \o <<"\n", "\n", "## Error Details", "\n", "- Branding Analysis: ">>
          \o PyRepr(st.branding_output)
          \o <<"\n", "- Marketing Analysis: ">> \o PyRepr(st.marketing_output)
          \o <<"\n", "- Product Analysis: ">> \o PyRepr(st.product_output)
          \o <<"\n", "- Trends Analysis: ">> \o PyRepr(st.trends_output)
          \o <<"\n", "\n", "Please check the system logs and try again.",
               "\n", " ">>)

\* a supervisor that cuts the report it received
supervisor_agent_Truncating(st, gw) ==
    IF gw.k = "raise"
    THEN Returned("final_report" :> fallback_report(st, gw.v))
    ELSE Returned("final_report" :> Take(gw.v, 3))

supervisor_agent(st, gw) ==
    IF gw.k = "raise"
    THEN Returned("final_report" :> fallback_report(st, gw.v))
    ELSE Returned("final_report" :> gw.v)

---------------------------------------------------------------------------
(* create_agent_graph and run_agent_analysis                                *)

entry_point == "branding"

\* workflow.add_edge(a, b)
Edges ==
    [branding |-> "marketing", marketing |-> "product", product |-> "trends",
     trends |-> "supervisor", supervisor |-> "END"]

\* a graph whose edge out of product skips the trends node
NextNode_SkipTrends(node) ==
    IF node = "product" THEN "supervisor" ELSE Edges[node]

\* a graph whose trends node has no edge to the supervisor
NextNode_DeadEnd(node) ==
    IF node = "trends" THEN "nowhere" ELSE Edges[node]

NextNode(node) == Edges[node]

\* a merge that loses the persona reactions
Merge_DropsReactions(st, update) ==
    [key \in DOMAIN st |->
        IF key \in DOMAIN update THEN update[key]
        ELSE IF key = "persona_reactions" THEN <<>> ELSE st[key]]

\* the graph merges a node's update into the state: the keys of the update
\* are overwritten, every other key is kept
Merge(st, update) ==
    [key \in DOMAIN st |-> IF key \in DOMAIN update THEN update[key] ELSE st[key]]

\* AgentState(...) of run_agent_analysis
initial_state(personas, product_description, persona_reactions) ==
    [personas |-> personas,
     product_description |-> product_description,
     persona_reactions |-> persona_reactions,
     branding_output |-> PyDict(<<>>),
     marketing_output |-> PyDict(<<>>),
     product_output |-> PyDict(<<>>),
     trends_output |-> PyDict(<<>>),
     final_report |-> <<>>]

\* result.get("final_report", "No report generated")
final_result(result) ==
    IF "final_report" \in DOMAIN result
    THEN result.final_report
    ELSE <<"No report generated">>

---------------------------------------------------------------------------
(* app.py: validate_inputs and run_analysis                                 *)

\* what validate_inputs returns: the tuple (is_valid, error_message)
Validated(ok, msg) == [done |-> TRUE, ok |-> ok, msg |-> msg]

\* len(product_description.strip()) < 20
MinDescription == 20

\* the indexes of the personas for which `not persona.strip()` holds
BlankPersonas(ps) == {i \in 1..Len(ps) : Strip(ps[i]) = <<>>}

\* a check that also rejects a description of exactly 20 characters
validate_inputs_Strict(ps, d) ==
    IF ps = <<>>
    THEN Validated(FALSE, <<"Please add at least one persona.">>)
    ELSE IF BlankPersonas(ps) # {}
    THEN Validated(FALSE, <<"Persona ", ToString(Min(BlankPersonas(ps))),
                            " is empty. Please provide a description.">>)
    ELSE IF Strip(d) = <<>>
    THEN Validated(FALSE, <<"Please provide a product/brand description.">>)
    ELSE IF Len(Strip(d)) <= MinDescription
    THEN Validated(FALSE,
            <<"Product description should be at least 20 characters long.">>)
    ELSE Validated(TRUE, <<>>)

\* validate_inputs(personas, product_description); a description is a
\* sequence of one-character tokens, so Len is Python's len
validate_inputs(ps, d) ==
    IF ps = <<>>
    THEN Validated(FALSE, <<"Please add at least one persona.">>)
    ELSE IF BlankPersonas(ps) # {}
    THEN Validated(FALSE, <<"Persona ", ToString(Min(BlankPersonas(ps))),
                            " is empty. Please provide a description.">>)
    ELSE IF Strip(d) = <<>>
    THEN Validated(FALSE, <<"Please provide a product/brand description.">>)
    ELSE IF Len(Strip(d)) < MinDescription
    THEN Validated(FALSE,
            <<"Product description should be at least 20 characters long.">>)
    ELSE Validated(TRUE, <<>>)

\* a loop body that puts the new reaction in front
append_reaction_InFront(reactions, reaction) == <<reaction>> \o reactions

\* persona_reactions.append(reaction)
append_reaction(reactions, reaction) == Append(reactions, reaction)

\* run_agent_analysis(personas, product_description, persona_reactions)
Invoked(ps, d, reactions) ==
    [done |-> TRUE, personas |-> ps, product_description |-> d,
     persona_reactions |-> reactions]

NotInvoked ==
    [done |-> FALSE, personas |-> <<>>, product_description |-> <<>>,
     persona_reactions |-> <<>>]

---------------------------------------------------------------------------
(* Values of the variables a specification does not use                    *)

NotExtracted == [done |-> FALSE, v |-> <<>>]

ExtractIdle == content = <<>> /\ extracted = NotExtracted

ChatIdle ==
    /\ chat_pc = "idle"
    /\ attempt = 0
    /\ sleeps = <<>>
    /\ posts = 0
    /\ chat_out = <<>>
    /\ last_http = NoHttp

RunIdle ==
    /\ pc = "idle"
    /\ state = initial_state(<<>>, <<>>, <<>>)
    /\ stages = <<>>
    /\ ret = <<>>
    /\ gateway_log = <<>>
    /\ sent = <<>>
    /\ search_log = <<>>

NoAgentOut == [stage |-> "none", out |-> PyNull, trend_results |-> <<>>]

AgentIdle == reply = <<>> /\ agent_out = NoAgentOut

NotValidated == [done |-> FALSE, ok |-> FALSE, msg |-> <<>>]

AppIdle ==
    /\ app_pc = "idle"
    /\ app_personas = <<>>
    /\ app_description = <<>>
    /\ validation = NotValidated
    /\ app_reactions = <<>>
    /\ reaction_calls = <<>>
    /\ invoked = NotInvoked

RunsIdle ==
    /\ runs_pc = <<>>
    /\ runs_ref = <<>>
    /\ runs_heap = <<>>
    /\ runs_ret = <<>>
    /\ runs_overlap = <<>>
    /\ runs_env = <<>>

OrderIdle ==
    /\ order_pc = <<>>
    /\ order_state = <<>>
    /\ order_update = <<>>
    /\ order_sent = <<>>
    /\ order_search = <<>>
    /\ order_seed = 0
    /\ order_log = <<>>

---------------------------------------------------------------------------
(* Harness for extract_final_response: every content up to MaxLen tokens   *)

ContentTokens == {think_start, think_end, "a", " "}

Contents == UNION {[1..n -> ContentTokens] : n \in 0..MaxLen}

ModelIds == {<<"deepseek-r1", ":14b">>, <<"DeepSeek-R1", ":7b">>, <<"llama2", ":7b">>}

InitExtract ==
    /\ model \in ModelIds
    /\ content \in Contents
    /\ extracted = NotExtracted
    /\ ChatIdle
    /\ RunIdle
    /\ AgentIdle
    /\ AppIdle
    /\ OrderIdle
    /\ RunsIdle

Extract ==
    /\ ~extracted.done
    /\ extracted' = [done |-> TRUE, v |-> extract_final_response(content, model)]
    /\ UNCHANGED <<model, runsVars, orderVars, appVars, agentVars, content, chatVars, runVars>>

NextExtract == Extract

SpecExtract == InitExtract /\ [][NextExtract]_vars

---------------------------------------------------------------------------
(* Harness for chat_llm: one call, attempt by attempt                      *)

\* the error texts and bodies the environment produces
TransportErrors == {<<"Connection refused">>, <<"Read timed out">>}
OtherErrors == {<<"Connection timeout">>}
ErrorStatuses == {201, 204, 404, 500}
ErrorBodies == {<<"model not found">>}

InitChat ==
    /\ model \in ModelIds
    /\ ExtractIdle
    /\ chat_pc = "loop"
    /\ attempt = 0
    /\ sleeps = <<>>
    /\ posts = 0
    /\ chat_out = <<>>
    /\ last_http = NoHttp
    /\ RunIdle
    /\ AgentIdle
    /\ AppIdle
    /\ OrderIdle
    /\ RunsIdle

\* one iteration of the for loop, meeting outcome o
ChatAttempt(o) ==
    /\ chat_pc = "loop"
    /\ LET r == IF attempt >= max_retries
                THEN MaxRetriesExceeded
                ELSE chat_iteration(attempt, o, model)
       IN  /\ posts' = IF attempt >= max_retries THEN posts ELSE posts + 1
           /\ last_http' = o
           /\ IF r.k = "sleep"
              THEN /\ sleeps' = Append(sleeps, r.delay)
                   /\ attempt' = attempt + 1
                   /\ chat_pc' = IF attempt + 1 >= max_retries THEN "raised" ELSE "loop"
                   /\ chat_out' = IF attempt + 1 >= max_retries
                                  THEN MaxRetriesExceeded.v ELSE chat_out
              ELSE /\ chat_pc' = IF r.k = "return" THEN "returned" ELSE "raised"
                   /\ chat_out' = r.v
                   /\ UNCHANGED <<sleeps, attempt>>
    /\ UNCHANGED <<model, runsVars, orderVars, appVars, agentVars, extractVars, runVars>>

\* requests.post returns a response with status 200
ChatResponse200 ==
    /\ chat_pc = "loop"
    /\ \E c \in Contents, hm \in BOOLEAN, hc \in BOOLEAN :
          /\ (hm /\ hc) \/ c = <<>>
          /\ hc => hm
          /\ ChatAttempt(HttpResponse(200, <<"{...}">>, hm, hc, c))

\* requests.post returns a response with another status
ChatResponseError ==
    /\ chat_pc = "loop"
    /\ \E st \in ErrorStatuses, b \in ErrorBodies, hm \in BOOLEAN :
        \* the JSON of the body may hold a message.content, as that of a 200 does
        ChatAttempt(HttpResponse(st, b, hm, hm, IF hm THEN <<"a">> ELSE <<>>))

\* the attempt raises a requests.exceptions.RequestException
ChatTransportError ==
    /\ chat_pc = "loop"
    /\ \E e \in TransportErrors : ChatAttempt(HttpTransport(e))

\* the attempt raises another exception
ChatOtherException ==
    /\ chat_pc = "loop"
    /\ \E e \in OtherErrors : ChatAttempt(HttpException(e))

NextChat ==
    \/ ChatResponse200
    \/ ChatResponseError
    \/ ChatTransportError
    \/ ChatOtherException

SpecChat == InitChat /\ [][NextChat]_vars

---------------------------------------------------------------------------
(* One run of run_agent_analysis: the pipeline, stage by stage              *)

\* the inputs of the run
Personas(n) == [i \in 1..n |-> <<"persona ", ToString(i)>>]
Reactions(n) == [i \in 1..n |-> <<"reaction ", ToString(i)>>]

\* a product description one character longer than the keyword slice
LongDescription == [i \in 1..(KeywordChars + 1) |-> IF i > KeywordChars THEN "z" ELSE "x"]

\* the product descriptions of the runs: a short one and the long one
Descriptions == {<<"a", " ", "t", "o", "y">>, LongDescription}

\* the values of DEFAULT_MODEL: a reasoning-family id and another id
RunModels == {<<"deepseek-r1", ":14b">>, <<"llama2", ":7b">>}

\* what the model server does during one chat_llm call of the run
Ok200(c) == HttpResponse(200, <<"{...}">>, TRUE, TRUE, c)
ReplyJson == <<"{", "\"k\"", ":", " ", "[", "\"v\"", "]", "}">>
ReplyText == <<think_start, "a", think_end, "a", "\n", "{", "a">>
GatewayScripts ==
    {<<Ok200(ReplyJson)>>,
     <<Ok200(ReplyText)>>,
     <<HttpResponse(200, <<"{...}">>, FALSE, FALSE, <<>>)>>,
     <<HttpTransport(<<"Read timed out">>), Ok200(ReplyJson)>>,
     <<HttpResponse(500, <<"internal error">>, FALSE, FALSE, <<>>)>>,
     [i \in 1..max_retries |-> HttpTransport(<<"Connection refused">>)]}

\* what the search collaborator does during one call
SearchOutcomes ==
    {SearchRaised(<<"search failed">>),
     SearchReturned(<<>>),
     SearchReturned(<<<<"AI is trending">>>>)}

Init ==
    /\ model \in RunModels
    /\ ExtractIdle
    /\ ChatIdle
    /\ AgentIdle
    /\ AppIdle
    /\ OrderIdle
    /\ RunsIdle
    /\ pc = entry_point
    /\ \E n \in 1..MaxPersonas, d \in Descriptions :
          \* the long description is run with one persona and the default model
          /\ d = LongDescription => n = 1 /\ model = <<"deepseek-r1", ":14b">>
          /\ state = initial_state(Personas(n), d, Reactions(n))
    /\ stages = <<>>
    /\ ret = <<>>
    /\ gateway_log = <<>>
    /\ sent = <<>>
    /\ search_log = <<>>

\* the graph runs node: its update is merged and the edge followed, or its
\* exception leaves invoke and run_agent_analysis
Advance(node, res) ==
    /\ stages' = Append(stages, node)
    /\ IF res.exc
       THEN pc' = "raised" /\ state' = state
       ELSE pc' = NextNode(node) /\ state' = Merge(state, res.update)

\* a stage that makes its chat_llm call twice
Called_Twice(stage, messages, gw) ==
    /\ gateway_log' = gateway_log
                      \o <<[stage |-> stage, k |-> gw.k, v |-> gw.v],
                           [stage |-> stage, k |-> gw.k, v |-> gw.v]>>
    /\ sent' = messages

\* the chat_llm call of a stage, with what it did
Called(stage, messages, gw) ==
    /\ gateway_log' = Append(gateway_log, [stage |-> stage, k |-> gw.k, v |-> gw.v])
    /\ sent' = messages

Branding ==
    /\ pc = "branding"
    /\ \E script \in GatewayScripts :
          LET gw == chat_llm(script, model)
          IN  /\ Called("branding", branding_messages(state), gw)
              /\ Advance("branding", branding_agent(state, gw))
    /\ UNCHANGED <<model, runsVars, orderVars, appVars, agentVars, extractVars, chatVars, ret, search_log>>

Marketing ==
    /\ pc = "marketing"
    /\ \E script \in GatewayScripts :
          LET gw == chat_llm(script, model)
          IN  /\ Called("marketing", marketing_messages(state), gw)
              /\ Advance("marketing", marketing_agent(state, gw))
    /\ UNCHANGED <<model, runsVars, orderVars, appVars, agentVars, extractVars, chatVars, ret, search_log>>

Product ==
    /\ pc = "product"
    /\ \E script \in GatewayScripts :
          LET gw == chat_llm(script, model)
          IN  /\ Called("product", product_messages(state), gw)
              /\ Advance("product", product_agent(state, gw))
    /\ UNCHANGED <<model, runsVars, orderVars, appVars, agentVars, extractVars, chatVars, ret, search_log>>

Trends ==
    /\ pc = "trends"
    /\ \E so \in SearchOutcomes, script \in GatewayScripts :
          LET gw == chat_llm(script, model)
          IN  /\ search_log' = Append(search_log,
                      [query |-> product_keywords(state), days_back |-> days_back,
                       k |-> so.k, err |-> so.err, results |-> so.results])
              /\ IF so.k = "raise"
                 THEN UNCHANGED <<gateway_log, sent>>
                 ELSE Called("trends", trends_messages(state, so.results), gw)
              /\ Advance("trends", trends_agent(state, so, gw))
    /\ UNCHANGED <<model, runsVars, orderVars, appVars, agentVars, extractVars, chatVars, ret>>

Supervisor ==
    /\ pc = "supervisor"
    /\ \E script \in GatewayScripts :
          LET gw == chat_llm(script, model)
          IN  /\ Called("supervisor", supervisor_messages(state), gw)
              /\ Advance("supervisor", supervisor_agent(state, gw))
    /\ UNCHANGED <<model, runsVars, orderVars, appVars, agentVars, extractVars, chatVars, ret, search_log>>

\* invoke returns the final state and run_agent_analysis returns
Finish ==
    /\ pc = "END"
    /\ ret' = final_result(state)
    /\ pc' = "done"
    /\ UNCHANGED <<model, runsVars, orderVars, appVars, agentVars, extractVars, chatVars, state, stages, gateway_log,
                   sent, search_log>>

Next ==
    \/ Branding
    \/ Marketing
    \/ Product
    \/ Trends
    \/ Supervisor
    \/ Finish

Spec == Init /\ [][Next]_vars

---------------------------------------------------------------------------
(* One specialist agent and the reply it gets: chat_llm returned `reply`    *)
(* (a 200 response) and the agent turns it into its output record          *)

\* the lines a reply is made of: plain, padded, empty, starting with a brace
LineShapes == {<<"a">>, <<" ", "b", " ">>, <<>>, <<"{", "c">>}

LineSeqs == UNION {[1..n -> LineShapes] : n \in 0..MaxLines}

\* replies that are valid JSON: an object of lists, a scalar
JsonReplies == {ReplyJson, <<"1">>}

\* the raw message.content of the reply
ReplyContents == {Join(<<"\n">>, ls) : ls \in LineSeqs} \cup JsonReplies

\* what search_recent_trends returned to the trends agent
TrendLists ==
    {<<>>, <<<<"AI is trending">>>>, <<<<"AI is trending">>, <<"toys go viral">>>>}

AgentState == initial_state(Personas(1), <<"a", " ", "t", "o", "y">>, Reactions(1))

InitAgents ==
    /\ model = <<"deepseek-r1", ":14b">>
    /\ ExtractIdle
    /\ ChatIdle
    /\ RunIdle
    /\ AppIdle
    /\ OrderIdle
    /\ RunsIdle
    /\ \E c \in ReplyContents : reply = chat_llm(<<Ok200(c)>>, model).v
    /\ agent_out = NoAgentOut

\* response = chat_llm(messages), as the agents see it
GatewayReturned == [k |-> "return", v |-> reply, delay |-> 0]

BrandingReply ==
    /\ agent_out.stage = "none"
    /\ agent_out' =
          [stage |-> "branding",
           out |-> branding_agent(AgentState, GatewayReturned).update["branding_output"],
           trend_results |-> <<>>]
    /\ UNCHANGED <<model, runsVars, orderVars, appVars, reply, extractVars, chatVars, runVars>>

MarketingReply ==
    /\ agent_out.stage = "none"
    /\ agent_out' =
          [stage |-> "marketing",
           out |-> marketing_agent(AgentState, GatewayReturned).update["marketing_output"],
           trend_results |-> <<>>]
    /\ UNCHANGED <<model, runsVars, orderVars, appVars, reply, extractVars, chatVars, runVars>>

ProductReply ==
    /\ agent_out.stage = "none"
    /\ agent_out' =
          [stage |-> "product",
           out |-> product_agent(AgentState, GatewayReturned).update["product_output"],
           trend_results |-> <<>>]
    /\ UNCHANGED <<model, runsVars, orderVars, appVars, reply, extractVars, chatVars, runVars>>

TrendsReply ==
    /\ agent_out.stage = "none"
    /\ \E t \in TrendLists :
          agent_out' =
             [stage |-> "trends",
              out |-> trends_agent(AgentState, SearchReturned(t),
                                   GatewayReturned).update["trends_output"],
              trend_results |-> t]
    /\ UNCHANGED <<model, runsVars, orderVars, appVars, reply, extractVars, chatVars, runVars>>

NextAgents ==
    \/ BrandingReply
    \/ MarketingReply
    \/ ProductReply
    \/ TrendsReply

SpecAgents == InitAgents /\ [][NextAgents]_vars

---------------------------------------------------------------------------
(* app.py: main validates the inputs and, when they are valid, the button   *)
(* starts run_analysis                                                      *)

\* the persona texts of the sidebar: filled in, padded, blank, empty
PersonaTexts == {<<"p">>, <<" ", "q", " ">>, <<" ">>, <<>>}

PersonaLists == UNION {[1..n -> PersonaTexts] : n \in 0..MaxPersonas}

\* a description: n characters, with a blank inside when there is room,
\* between lead and trail blanks
DescriptionBody(n) == [i \in 1..n |-> IF i = 2 /\ n > 2 THEN " " ELSE "a"]

DescriptionTexts ==
    {Spaces(lead) \o DescriptionBody(n) \o Spaces(trail) :
        lead \in 0..1, n \in 0..MaxDescription, trail \in 0..1}

\* what the model server does during one generate_persona_reaction call
ReactionScripts ==
    {<<Ok200(<<"I like it">>)>>,
     <<Ok200(<<think_start, "hm", think_end, "Too expensive">>)>>,
     <<HttpTransport(<<"Read timed out">>), Ok200(<<"I like it">>)>>,
     <<HttpResponse(500, <<"internal error">>, FALSE, FALSE, <<>>)>>}

InitApp ==
    /\ model \in RunModels
    /\ ExtractIdle
    /\ ChatIdle
    /\ RunIdle
    /\ AgentIdle
    /\ OrderIdle
    /\ RunsIdle
    /\ app_pc = "input"
    /\ app_personas \in PersonaLists
    /\ app_description \in DescriptionTexts
    /\ validation = NotValidated
    /\ app_reactions = <<>>
    /\ reaction_calls = <<>>
    /\ invoked = NotInvoked

\* main: is_valid, error_message = validate_inputs(...); the button is
\* disabled unless is_valid
ValidateInputs ==
    /\ app_pc = "input"
    /\ validation' = validate_inputs(app_personas, app_description)
    /\ app_pc' = IF validation'.ok THEN "ready" ELSE "rejected"
    /\ UNCHANGED <<model, runsVars, orderVars, extractVars, chatVars, runVars, agentVars,
                   app_personas, app_description, app_reactions,
                   reaction_calls, invoked>>

\* the button is pressed: run_analysis starts with persona_reactions = []
StartAnalysis ==
    /\ app_pc = "ready"
    /\ app_pc' = "reactions"
    /\ app_reactions' = <<>>
    /\ UNCHANGED <<model, runsVars, orderVars, extractVars, chatVars, runVars, agentVars,
                   app_personas, app_description, validation,
                   reaction_calls, invoked>>

\* a reaction call that answers a gateway failure with a placeholder
generate_persona_reaction_Placeholder(script, m) ==
    IF chat_llm(script, m).k = "raise"
    THEN [k |-> "return", v |-> <<"No reaction generated">>, delay |-> 0]
    ELSE chat_llm(script, m)

\* generate_persona_reaction: return chat_llm(messages, model), with no
\* try/except around it
generate_persona_reaction(script, m) == chat_llm(script, m)

\* one pass of `for i, persona in enumerate(personas)`: the call returns and
\* its value is appended, or it raises and the except branch of run_analysis
\* reports the failure
GenerateReaction ==
    /\ app_pc = "reactions"
    /\ Len(reaction_calls) < Len(app_personas)
    /\ \E script \in ReactionScripts :
          LET persona == app_personas[Len(reaction_calls) + 1]
              gw == generate_persona_reaction(script, model)
              gateway == chat_llm(script, model)
          IN  /\ reaction_calls' = Append(reaction_calls,
                    [persona |-> persona, product_description |-> app_description,
                     k |-> gw.k, v |-> gw.v,
                     gateway |-> [k |-> gateway.k, v |-> gateway.v]])
              /\ IF gw.k = "raise"
                 THEN app_pc' = "failed" /\ UNCHANGED app_reactions
                 ELSE /\ app_reactions' = append_reaction(app_reactions, gw.v)
                      /\ UNCHANGED app_pc
    /\ UNCHANGED <<model, runsVars, orderVars, extractVars, chatVars, runVars, agentVars,
                   app_personas, app_description, validation, invoked>>

\* after the loop: final_report = run_agent_analysis(...), then the results
\* are displayed (run_agent_analysis itself is the specification Spec)
RunAgentAnalysis ==
    /\ app_pc = "reactions"
    /\ Len(reaction_calls) = Len(app_personas)
    /\ invoked' = Invoked(app_personas, app_description, app_reactions)
    /\ app_pc' = "complete"
    /\ UNCHANGED <<model, runsVars, orderVars, extractVars, chatVars, runVars, agentVars,
                   app_personas, app_description, validation, app_reactions,
                   reaction_calls>>

NextApp ==
    \/ ValidateInputs
    \/ StartAnalysis
    \/ GenerateReaction
    \/ RunAgentAnalysis

SpecApp == InitApp /\ [][NextApp]_vars

---------------------------------------------------------------------------
(* Progress: a pipeline run, or one chat_llm call on its own, under the     *)
(* assumption that every HTTP attempt and every search call completes, so   *)
(* that a stage or an attempt that can take its step does take it           *)

\* the runs and calls of the default model; one persona is as good as
\* several here, since no loop of the pipeline runs over the personas
InitLive ==
    /\ model = <<"deepseek-r1", ":14b">>
    /\ \/ Init /\ Len(state.personas) = 1
       \/ InitChat

NextLive == Next \/ NextChat

SpecLive ==
    InitLive /\ [][NextLive]_vars /\ WF_vars(Next) /\ WF_vars(NextChat)

---------------------------------------------------------------------------
(* Claims about the pipeline (checked under Spec)                           *)

StageOrder == <<"branding", "marketing", "product", "trends", "supervisor">>
Specialists == {"branding", "marketing", "product", "trends"}

\* the chat_llm calls of the run that raised, and those made by a stage
GatewayRaised(stage) ==
    \E i \in 1..Len(gateway_log) :
        gateway_log[i].stage = stage /\ gateway_log[i].k = "raise"
AllGatewayCallsRaised ==
    \A i \in 1..Len(gateway_log) : gateway_log[i].k = "raise"
SearchHasRaised == search_log # <<>> /\ search_log[1].k = "raise"

\* a is a contiguous part of b
IsInfix(a, b) ==
    \E i \in 0..(Len(b) - Len(a)) : SubSeq(b, i + 1, i + Len(a)) = a

\* the strings in the lists of a record whose values are lists of str
StringsOf(d) ==
    UNION {{d.v[i].val.v[j].v : j \in 1..Len(d.v[i].val.v)} : i \in 1..Len(d.v)}

OutputField(stage) ==
    CASE stage = "branding" -> "branding_output"
      [] stage = "marketing" -> "marketing_output"
      [] stage = "product" -> "product_output"
      [] stage = "trends" -> "trends_output"

ErrorMarker(stage) ==
    CASE stage = "branding" -> <<"Error in branding analysis">>
      [] stage = "marketing" -> <<"Error in marketing analysis">>
      [] stage = "product" -> <<"Error in product analysis">>
      [] stage = "trends" -> <<"Error in trends analysis">>

FieldNames(stage) ==
    CASE stage = "branding" -> {<<"branding_advice">>}
      [] stage = "marketing" -> {<<"marketing_plan">>, <<"pricing_tips">>}
      [] stage = "product" -> {<<"feature_gaps">>, <<"quick_wins">>}
      [] stage = "trends" -> {<<"trends">>}

C2_NeverRaises ==
    /\ pc # "raised"
    /\ pc = "done" => ret \in Seq(STRING)

C2_Witness ==
    /\ pc = "done"
    /\ AllGatewayCallsRaised
    /\ SearchHasRaised
    /\ Len(gateway_log) = 4

\* the degraded record of a specialist whose call raised e
IsErrorRecord(d, stage, e) ==
    /\ d.t = "dict"
    /\ DictKeys(d) = FieldNames(stage)
    /\ ErrorMarker(stage) \in StringsOf(d)
    /\ e \in StringsOf(d)

\* C3: a specialist whose gateway call (or, for trends, search call) raised
\* has returned normally, and its output record has the agent's own field
\* names and holds the agent's error marker and the str() of the error.
C3_ErrorRecords ==
    /\ pc # "raised"
    /\ \A i \in 1..Len(gateway_log) :
          (gateway_log[i].k = "raise" /\ gateway_log[i].stage \in Specialists)
          => IsErrorRecord(state[OutputField(gateway_log[i].stage)],
                           gateway_log[i].stage, gateway_log[i].v)
    /\ SearchHasRaised
       => IsErrorRecord(state.trends_output, "trends", search_log[1].err)

C3_Witness ==
    /\ pc = "supervisor"
    /\ \A stage \in Specialists : GatewayRaised(stage)
    /\ gateway_log[1].v # gateway_log[2].v

\* C4: the report a run returns is never empty, whether the supervisor's
\* gateway call failed or succeeded with any response body.
C4_NonEmptyReport == pc = "done" => ret # <<>>

\* C5: the terminal step returns final_report when it is not empty and the
\* 'No report generated' placeholder when it is; never the empty string.
C5_PlaceholderWhenEmpty ==
    pc = "done"
    => ret = IF state.final_report # <<>>
             THEN state.final_report
             ELSE <<"No report generated">>

\* the supervisor's gateway call returned text
SupervisorCallReturned ==
    /\ pc \in {"END", "done"}
    /\ gateway_log[Len(gateway_log)].stage = "supervisor"
    /\ gateway_log[Len(gateway_log)].k = "return"

\* C6: when the supervisor's gateway call succeeds, final_report is exactly
\* the text the gateway returned, whatever the four output records are.
C6_ReportVerbatim ==
    SupervisorCallReturned
    => state.final_report = gateway_log[Len(gateway_log)].v

C6_Witness ==
    /\ SupervisorCallReturned
    /\ Len(gateway_log[Len(gateway_log)].v) > 3
    /\ GatewayRaised("branding")
    /\ ~GatewayRaised("marketing")

\* C7: when every gateway call of the run raised, each of the four output
\* records holds its agent's error marker, and the report returned is the
\* fallback markdown holding the str() of the supervisor's error and the
\* four records as they stand in the state.
C7_AllFailed ==
    (pc = "done" /\ AllGatewayCallsRaised)
    => /\ \A stage \in Specialists :
            ErrorMarker(stage) \in StringsOf(state[OutputField(stage)])
       /\ ret = state.final_report
       /\ Head(ret) = "# Creative Agency Analysis Report"
       /\ IsInfix(<<"An error occurred during analysis synthesis: ">>
                  \o gateway_log[Len(gateway_log)].v, ret)
       /\ IsInfix(<<"- Branding Analysis: ">> \o PyRepr(state.branding_output), ret)
       /\ IsInfix(<<"- Marketing Analysis: ">> \o PyRepr(state.marketing_output), ret)
       /\ IsInfix(<<"- Product Analysis: ">> \o PyRepr(state.product_output), ret)
       /\ IsInfix(<<"- Trends Analysis: ">> \o PyRepr(state.trends_output), ret)

C7_Witness ==
    /\ pc = "done"
    /\ AllGatewayCallsRaised
    /\ Len(gateway_log) = 5
    /\ gateway_log[5].v # gateway_log[4].v

---------------------------------------------------------------------------
(* Claims about extract_final_response (checked under SpecExtract)         *)

ClosingMarkers(c) == Cardinality(Occurrences(c, think_end))

\* C8: for a reasoning-family model and content with more than one closing
\* marker, the result is only the text after the LAST closing marker,
\* trimmed (when that text is not empty).
C8_AfterLastMarker ==
    (extracted.done /\ IsReasoningModel(model) /\ ClosingMarkers(content) > 1
        /\ Strip(AfterLast(content, think_end)) # <<>>)
    => extracted.v = Strip(AfterLast(content, think_end))

\* C10: for a reasoning-family model, content with no closing marker, or
\* with nothing after its last closing marker, comes back as the raw content
\* trimmed, markers kept.
C10_RawWhenNoFinalText ==
    (extracted.done /\ IsReasoningModel(model)
        /\ (~Contains(content, think_end)
            \/ Strip(AfterLast(content, think_end)) = <<>>))
    => extracted.v = Strip(content)

\* the content is one deliberation block and nothing else: <think>X</think>,
\* X free of markers and of surrounding whitespace
OnlyDeliberation(c) ==
    /\ Len(c) >= 2
    /\ c[1] = think_start
    /\ c[Len(c)] = think_end
    /\ LET X == SubSeq(c, 2, Len(c) - 1)
       IN  /\ ~Contains(X, think_start)
           /\ ~Contains(X, think_end)
           /\ Strip(X) = X

\* C11: for a reasoning-family model, content that is only a deliberation
\* block, <think>X</think>, yields X: both markers are removed.
C11_OnlyDeliberationUnwrapped ==
    (extracted.done /\ IsReasoningModel(model) /\ OnlyDeliberation(content))
    => extracted.v = SubSeq(content, 2, Len(content) - 1)

\* has c a character that is not whitespace
NonBlank(c) == \E i \in 1..Len(c) : c[i] \notin Whitespace

\* C12 as stated: extract_final_response returns a str for every model id
\* and content, and never the empty str when the raw content is non-empty.
C12_NeverEmpty ==
    extracted.done
    => /\ extracted.v \in Seq(STRING)
       /\ (content # <<>> => extracted.v # <<>>)

\* C12 amended: extract_final_response returns a str for every model id and
\* content, and never the empty str when the raw content has a character
\* that is not whitespace; whitespace-only content comes back empty.
C12_NeverEmptyUnlessBlank ==
    extracted.done
    => /\ extracted.v \in Seq(STRING)
       /\ (NonBlank(content) => extracted.v # <<>>)
       /\ (~NonBlank(content) => extracted.v = <<>>)

\* a reasoning-family model, a closing marker with nothing after it
C12_Witness ==
    /\ extracted.done
    /\ IsReasoningModel(model)
    /\ Contains(content, think_end)
    /\ Strip(AfterFirst(content, think_end)) = <<>>
    /\ extracted.v # <<>>

\* C13: deliberation-stripping is idempotent: stripping the result of
\* extract_final_response(c, m) again, for the same m, gives the same text.
C13_Idempotent ==
    extracted.done
    => extract_final_response(extracted.v, model) = extracted.v

---------------------------------------------------------------------------
(* Claims about chat_llm (checked under SpecChat)                          *)

\* The deliberation-stripped form of S as section 4.1 of the specification
\* defines it: the text after the last closing marker, trimmed; the raw
\* content trimmed when there is no closing marker or nothing follows it.
DeliberationStripped(S) ==
    IF Contains(S, think_end) /\ Strip(AfterLast(S, think_end)) # <<>>
    THEN Strip(AfterLast(S, think_end))
    ELSE Strip(S)

\* C9: a 200 response whose message.content is S makes chat_llm return the
\* deliberation-stripped form of S for a reasoning-family model id and S
\* trimmed for any other model id.
C9_CleanedContent ==
    (chat_pc = "returned" /\ last_http.has_message /\ last_http.has_content)
    => chat_out = IF IsReasoningModel(model)
                  THEN DeliberationStripped(last_http.content)
                  ELSE Strip(last_http.content)


\* the step is one attempt of the call, and it met outcome kind k
AttemptStep(k) == posts' = posts + 1 /\ last_http'.k = k

\* C14: when attempt k (0-indexed) fails with a transport error and another
\* attempt follows, the call sleeps exactly base_delay * 2^k = 2^k before
\* attempt k + 1; nothing else makes it sleep.
C14_BackoffDelays ==
    [][/\ (AttemptStep("transport") /\ chat_pc' = "loop")
            => sleeps' = Append(sleeps, 1 * 2^posts)
       /\ (sleeps' # sleeps)
            => (AttemptStep("transport") /\ chat_pc' = "loop")]_vars

C14_Witness == sleeps = <<1, 2, 4, 8, 16, 32, 64, 128, 256>>

\* C15: a call whose every attempt fails with a transport error makes
\* exactly 10 attempts and then raises the terminal error; it does not
\* return and there is no 11th attempt.  (An attempt is followed by another
\* one only after a transport error, so a call that has ended on a transport
\* error is a call whose every attempt met one.)
C15_TenAttemptsThenRaise ==
    /\ posts <= 10
    /\ (chat_pc = "loop" => posts < 10)
    /\ (chat_pc # "loop" /\ last_http.k = "transport")
        => /\ chat_pc = "raised"
           /\ posts = 10
           /\ chat_out = <<"Failed to connect to Ollama after ", "10",
                           " attempts: ">> \o last_http.text

C15_Witness == chat_pc = "raised" /\ last_http.k = "transport" /\ posts = 10

\* C16: a call whose every attempt fails with a transport error performs 10
\* retries before it raises: 10 backoff sleeps, 11 attempts in all.
C16_TenRetries ==
    (chat_pc = "raised" /\ last_http.k = "transport")
    => Len(sleeps) = 10 /\ posts = 11

\* C17: an attempt that gets a response with a non-2xx status makes the call
\* raise on that attempt, with the status and the body text in the error;
\* no sleep and no further attempt follow, whichever attempt it is.
C17_StatusErrorIsFinal ==
    [][/\ (AttemptStep("response") /\ last_http'.status \notin 200..299)
            => /\ chat_pc' = "raised"
               /\ chat_out' = <<"HTTP ", ToString(last_http'.status), ": ">>
                              \o last_http'.text
               /\ sleeps' = sleeps
       /\ (chat_pc = "raised" => vars' = vars)]_vars

\* a non-2xx response on a later attempt, after transport errors
C17_Witness ==
    /\ chat_pc = "raised"
    /\ last_http.k = "response"
    /\ last_http.status = 500
    /\ posts = 4
    /\ sleeps = <<1, 2, 4>>

\* C34: an attempt that gets a 200 response after j transport errors (j
\* sleeps, j in 0..9) makes the call return, with the value
\* extract_final_response gives for that response's message.content; it is
\* attempt j + 1 and there have been j sleeps; after the return there is no
\* attempt and no sleep.
C34_SuccessAfterRetries ==
    [][/\ (AttemptStep("response") /\ last_http'.status = 200)
            => /\ chat_pc' = "returned"
               /\ chat_out' = extract_final_response(raw_content(last_http'), model)
               /\ posts = Len(sleeps)
               /\ posts \in 0..9
               /\ posts' = Len(sleeps') + 1
               /\ sleeps' = sleeps
       /\ (chat_pc = "returned" => vars' = vars)]_vars

\* a 200 response on the tenth attempt, after nine transport errors
C34_Witness ==
    /\ chat_pc = "returned"
    /\ last_http.status = 200
    /\ chat_out # <<>>
    /\ posts = 10
    /\ Len(sleeps) = 9

\* C35: an attempt in which requests.post raises an exception that is not a
\* RequestException makes the call raise that exception on that attempt,
\* without a sleep, another attempt or a value returned; on the first
\* attempt that is after one post and no sleep.
C35_OtherExceptionPropagates ==
    [][/\ AttemptStep("exception")
            => /\ chat_pc' = "raised"
               /\ chat_out' = last_http'.text
               /\ sleeps' = sleeps
               /\ attempt' = attempt
               /\ (attempt = 0 => posts' = 1 /\ sleeps' = <<>>)
       /\ (chat_pc = "raised" /\ last_http.k = "exception") => vars' = vars]_vars

\* the first attempt raised a plain exception and the call has raised it
C35_Witness ==
    /\ chat_pc = "raised"
    /\ last_http.k = "exception"
    /\ chat_out = <<"Connection timeout">>
    /\ posts = 1
    /\ sleeps = <<>>

\* C36: an attempt that gets a response with a status other than 200, a 2xx
\* status such as 201 or 204 included, makes the call raise on that attempt
\* with no sleep; the call returns only after a 200 response, so the content
\* of another response's body is never returned.
C36_Only200Succeeds ==
    [][/\ (AttemptStep("response") /\ last_http'.status # 200)
            => /\ chat_pc' = "raised"
               /\ chat_out' = <<"HTTP ", ToString(last_http'.status), ": ">>
                              \o last_http'.text
               /\ chat_out' # last_http'.content
               /\ sleeps' = sleeps
               /\ attempt' = attempt
       /\ (chat_pc' = "returned" /\ chat_pc # "returned")
            => (AttemptStep("response") /\ last_http'.status = 200)]_vars

\* a 201 response whose body holds a message.content, after two transport
\* errors: the call has raised
C36_Witness ==
    /\ chat_pc = "raised"
    /\ last_http.k = "response"
    /\ last_http.status = 201
    /\ last_http.has_content
    /\ last_http.content # <<>>
    /\ posts = 3


---------------------------------------------------------------------------
(* Claims about the parsing fallbacks (checked under SpecAgents)            *)

\* the non-empty trimmed lines of a text, in order
TrimmedLines(r) ==
    SelectSeq([i \in 1..Len(SplitLines(r)) |-> Strip(SplitLines(r)[i])],
              LAMBDA l : l # <<>>)

\* the agent fell back: its reply was not valid JSON
FellBack(stage) == agent_out.stage = stage /\ ~json_loads(reply).ok

\* d is a record with exactly the keys `keys`, in that order, each a list of str
IsListRecord(d, keys) ==
    /\ d.t = "dict"
    /\ [i \in 1..Len(d.v) |-> d.v[i].key] = keys
    /\ \A i \in 1..Len(d.v) :
          /\ d.v[i].val.t = "list"
          /\ \A j \in 1..Len(d.v[i].val.v) : d.v[i].val.v[j].t = "str"

\* the i-th list of such a record, as a sequence of texts
ListAt(d, i) == [j \in 1..Len(d.v[i].val.v) |-> d.v[i].val.v[j].v]

TwoListKeys(stage) ==
    IF stage = "marketing" THEN <<<<"marketing_plan">>, <<"pricing_tips">>>>
    ELSE <<<<"feature_gaps">>, <<"quick_wins">>>>

TwoListPlaceholders(stage) ==
    IF stage = "marketing"
    THEN <<<<"No marketing plan generated">>, <<"No pricing tips generated">>>>
    ELSE <<<<"No feature gaps identified">>, <<"No quick wins identified">>>>

\* C18: when the reply of the marketing or product agent is not valid JSON,
\* its n non-empty trimmed lines are split in order into a first list of
\* floor(n/2) lines and a second list of the other n - floor(n/2) lines;
\* with n = 0 each list is the single placeholder.
C18_TwoListSplit ==
    \A stage \in {"marketing", "product"} :
        FellBack(stage) =>
            LET lines == TrimmedLines(reply)
                n == Len(lines)
                A == ListAt(agent_out.out, 1)
                B == ListAt(agent_out.out, 2)
            IN  /\ IsListRecord(agent_out.out, TwoListKeys(stage))
                /\ n > 0 => /\ Len(A) = n \div 2
                            /\ Len(B) = n - (n \div 2)
                            /\ A \o B = lines
                /\ n = 0 => /\ A = <<TwoListPlaceholders(stage)[1]>>
                            /\ B = <<TwoListPlaceholders(stage)[2]>>

\* an odd number of lines, with empty lines among them
C18_Witness ==
    /\ FellBack("product")
    /\ Len(TrimmedLines(reply)) = 5
    /\ Len(SplitLines(reply)) = 6
    /\ Len(ListAt(agent_out.out, 1)) = 2

\* the trimmed lines that do not start with a brace
WithoutBraceLines(lines) == SelectSeq(lines, LAMBDA l : l[1] # "{")

\* C19: when the reply of the branding agent is not valid JSON, the advice
\* list holds, in order, the first at most 5 of the non-empty trimmed lines
\* that do not start with '{': brace lines are discarded before the cap is
\* applied, and an empty list stays empty.
C19_AdviceList ==
    FellBack("branding") =>
        LET kept == WithoutBraceLines(TrimmedLines(reply))
        IN  /\ IsListRecord(agent_out.out, <<<<"branding_advice">>>>)
            /\ ListAt(agent_out.out, 1)
                  = SubSeq(kept, 1, IF Len(kept) < 5 THEN Len(kept) ELSE 5)

\* six lines, the first of them a brace line: five lines of advice
C19_Witness ==
    /\ FellBack("branding")
    /\ Len(TrimmedLines(reply)) = 6
    /\ TrimmedLines(reply)[1][1] = "{"
    /\ Len(WithoutBraceLines(TrimmedLines(reply))) = 5
    /\ Len(ListAt(agent_out.out, 1)) = 5

\* C20: when the reply of the trends agent is not valid JSON, the trends
\* list of trends_output is exactly the list the search call returned, or
\* the one placeholder when that list is empty; no line of the model's text
\* is in the output.
C20_TrendsFallback ==
    FellBack("trends") =>
        /\ IsListRecord(agent_out.out, <<<<"trends">>>>)
        /\ ListAt(agent_out.out, 1)
              = IF agent_out.trend_results # <<>>
                THEN agent_out.trend_results
                ELSE <<<<"No recent trends found">>>>
        /\ \A i \in 1..Len(TrimmedLines(reply)) :
              \A t \in StringsOf(agent_out.out) :
                  ~IsInfix(TrimmedLines(reply)[i], t)

C20_Witness ==
    /\ FellBack("trends")
    /\ Len(TrimmedLines(reply)) >= 2
    /\ Len(agent_out.trend_results) = 2
    /\ Len(ListAt(agent_out.out, 1)) = 2

\* d is a mapping from str keys to lists of str
IsStringListMapping(d) ==
    /\ d.t = "dict"
    /\ \A i \in 1..Len(d.v) :
          /\ d.v[i].val.t = "list"
          /\ \A j \in 1..Len(d.v[i].val.v) : d.v[i].val.v[j].t = "str"

\* C21: whenever a specialist agent returns, the value it writes to its
\* *_output field is a mapping from str keys to lists of str; a reply that
\* is JSON but not such a mapping goes through the fallback and is never
\* stored.
C21_OutputIsRecord ==
    agent_out.stage # "none" => IsStringListMapping(agent_out.out)

---------------------------------------------------------------------------
(* Claims about app.py (checked under SpecApp)                              *)

\* C22: when run_analysis invokes the pipeline, persona_reactions is as
\* long as personas and persona_reactions[i] is the reaction generated for
\* personas[i]; one reaction call was made per persona, in persona order.
C22_ReactionsMatchPersonas ==
    invoked.done =>
        /\ invoked.personas = app_personas
        /\ Len(invoked.persona_reactions) = Len(invoked.personas)
        /\ Len(reaction_calls) = Len(invoked.personas)
        /\ \A i \in 1..Len(invoked.personas) :
              /\ reaction_calls[i].persona = invoked.personas[i]
              /\ reaction_calls[i].k = "return"
              /\ invoked.persona_reactions[i] = reaction_calls[i].v

\* two different personas that got two different reactions
C22_Witness ==
    /\ invoked.done
    /\ Len(invoked.personas) = 2
    /\ invoked.personas[1] # invoked.personas[2]
    /\ invoked.persona_reactions[1] # invoked.persona_reactions[2]

\* the number of characters of a text between its surrounding whitespace
TrimmedLen(d) ==
    IF \A i \in 1..Len(d) : d[i] \in Whitespace THEN 0
    ELSE Max({i \in 1..Len(d) : d[i] \notin Whitespace})
         - Min({i \in 1..Len(d) : d[i] \notin Whitespace}) + 1

\* the message of the first failing check, <<>> when none fails
FirstFailure(ps, d) ==
    IF Len(ps) = 0 THEN <<"Please add at least one persona.">>
    ELSE IF \E i \in 1..Len(ps) : TrimmedLen(ps[i]) = 0
    THEN LET i == CHOOSE i \in 1..Len(ps) :
                      /\ TrimmedLen(ps[i]) = 0
                      /\ \A j \in 1..(i - 1) : TrimmedLen(ps[j]) > 0
         IN  <<"Persona ", ToString(i), " is empty. Please provide a description.">>
    ELSE IF TrimmedLen(d) = 0
    THEN <<"Please provide a product/brand description.">>
    ELSE IF TrimmedLen(d) < 20
    THEN <<"Product description should be at least 20 characters long.">>
    ELSE <<>>

\* C24: validate_inputs returns (True, "") exactly when there is a persona,
\* no persona is blank and the trimmed description has at least 20
\* characters; otherwise (False, message of the first failing check), the
\* checks being: no personas, blank persona (lowest index, 1-based), blank
\* description, description shorter than 20.
C24_ValidateInputs ==
    validation.done =>
        /\ validation.ok
              <=> /\ Len(app_personas) > 0
                  /\ \A i \in 1..Len(app_personas) : TrimmedLen(app_personas[i]) > 0
                  /\ TrimmedLen(app_description) >= 20
        /\ validation.ok <=> validation.msg = <<>>
        /\ validation.msg = FirstFailure(app_personas, app_description)

\* accepted: a description of exactly 20 characters between blanks
C24_Witness ==
    /\ validation.done
    /\ validation.ok
    /\ Len(app_description) = 22
    /\ TrimmedLen(app_description) = 20

\* C33: a reaction call whose chat_llm call raises, raises the same error
\* itself (it returns no value); run_analysis then ends as failed: that call
\* is the last one made (no reaction is requested for the later personas),
\* persona_reactions holds the reactions returned before it and nothing for
\* it, and run_agent_analysis is not invoked.
C33_FailureAborts ==
    \A i \in 1..Len(reaction_calls) :
        reaction_calls[i].gateway.k = "raise" =>
            /\ reaction_calls[i].k = "raise"
            /\ reaction_calls[i].v = reaction_calls[i].gateway.v
            /\ i = Len(reaction_calls)
            /\ app_pc = "failed"
            /\ ~invoked.done
            /\ Len(app_reactions) = i - 1
            /\ \A j \in 1..(i - 1) : app_reactions[j] = reaction_calls[j].v

\* the call for the first of two personas failed: run_analysis has ended
\* with no call for the second
C33_Witness ==
    /\ app_pc = "failed"
    /\ Len(app_personas) = 2
    /\ Len(reaction_calls) = 1
    /\ reaction_calls[1].gateway.k = "raise"
    /\ ~ENABLED NextApp

---------------------------------------------------------------------------
(* Further claims about the pipeline (checked under Spec and SpecLive)      *)

\* the stages that have run
Ran == {stages[i] : i \in 1..Len(stages)}

\* C23: the four specialist agents run in parallel: the workflow puts no
\* order among them (a specialist that has not run never waits for another
\* specialist that has not run), and the supervisor runs after all four.
C23_SpecialistsUnordered ==
    /\ \A s \in Specialists \ Ran :
          \A t \in Specialists \ Ran : NextNode(t) # s
    /\ ("supervisor" \in Ran => Specialists \subseteq Ran)

\* the run, or the call, has ended
Terminated ==
    \/ pc = "done" /\ Len(stages) = 5
    \/ pc = "idle" /\ chat_pc \in {"returned", "raised"}

\* C25: when every HTTP attempt and every search call completes, every run
\* terminates: a chat_llm call ends after at most 10 attempts and the
\* pipeline reaches Done after its fifth stage, on success and failure
\* paths alike.
C25_Terminates == [](posts <= 10) /\ <>Terminated

\* a run that ended although a gateway call had used up its attempts and the
\* search call had raised
C25_Witness ==
    /\ pc = "done"
    /\ SearchHasRaised
    /\ \E i \in 1..Len(gateway_log) :
          /\ gateway_log[i].k = "raise"
          /\ gateway_log[i].v[1] = "Failed to connect to Ollama after "

\* the four output fields of the run state
OutputFields == {OutputField(s) : s \in Specialists}

\* the field a stage writes
OwnField(stage) ==
    IF stage = "supervisor" THEN "final_report" ELSE OutputField(stage)

\* a step in which a stage ran, and the stage
StageRan == stages' # stages
RanNow == stages'[Len(stages')]

\* C26: the step of a stage changes no field of the run state but the
\* stage's own (a specialist its *_output, the supervisor final_report):
\* personas, product_description, persona_reactions and the other outputs
\* are after the merge what they were before, on success and error paths;
\* a step in which no stage runs changes nothing of the run state.
C26_OneFieldPerStage ==
    [][/\ DOMAIN state' = DOMAIN state
       /\ StageRan =>
             \A f \in DOMAIN state \ {OwnField(RanNow)} : state'[f] = state[f]
       /\ ~StageRan => state' = state]_vars

\* a finished run in which one specialist failed and the others did not,
\* with the reactions still in the state
C26_Witness ==
    /\ pc = "done"
    /\ GatewayRaised("marketing")
    /\ ~GatewayRaised("branding")
    /\ ~GatewayRaised("supervisor")
    /\ state.persona_reactions # <<>>
    /\ state.final_report # <<>>

\* the run state with no output of any stage in it
Scrubbed(st) ==
    initial_state(st.personas, st.product_description, st.persona_reactions)

\* the conversation a specialist builds from a run state
MessagesOf(stage, st, trend_results) ==
    CASE stage = "branding" -> branding_messages(st)
      [] stage = "marketing" -> marketing_messages(st)
      [] stage = "product" -> product_messages(st)
      [] stage = "trends" -> trends_messages(st, trend_results)

\* the update a specialist returns from a run state
UpdateOf(stage, st, so, gw) ==
    CASE stage = "branding" -> branding_agent(st, gw).update
      [] stage = "marketing" -> marketing_agent(st, gw).update
      [] stage = "product" -> product_agent(st, gw).update
      [] stage = "trends" -> trends_agent(st, so, gw).update

\* what the search call of the step did (nothing, for the other stages)
SearchOf(stage, log) ==
    IF stage = "trends" THEN log[Len(log)]
    ELSE [k |-> "return", err |-> <<>>, results |-> <<>>]

\* what the chat_llm call of the step did (when the step made none, the
\* agent does not look at it)
GatewayOf(before, after) ==
    IF after # before THEN after[Len(after)] ELSE [k |-> "return", v |-> <<>>]

\* C27: an output field changes only in the step of its owning agent, which
\* runs once; and the conversation a specialist sends and the record it
\* writes are those it would send and write from a run state with every
\* other output field blank: no specialist reads another's output.
C27_WriteOnceNoReads ==
    [][/\ \A f \in OutputFields :
             state'[f] # state[f] =>
                /\ StageRan
                /\ RanNow \in Specialists
                /\ f = OutputField(RanNow)
                /\ RanNow \notin {stages[i] : i \in 1..Len(stages)}
       /\ (StageRan /\ RanNow \in Specialists) =>
             LET so == SearchOf(RanNow, search_log')
                 gw == GatewayOf(gateway_log, gateway_log')
             IN  /\ gateway_log' # gateway_log =>
                       sent' = MessagesOf(RanNow, Scrubbed(state), so.results)
                 /\ state'[OutputField(RanNow)]
                       = UpdateOf(RanNow, Scrubbed(state), so, gw)[OutputField(RanNow)]]_vars

\* a finished run whose four records are all written and not all alike
C27_Witness ==
    /\ pc = "done"
    /\ \A f \in OutputFields : state[f] # PyDict(<<>>)
    /\ state.branding_output # state.marketing_output
    /\ state.product_output # state.trends_output

\* the last chat_llm call is the supervisor's
SupervisorCalled ==
    gateway_log # <<>> /\ gateway_log[Len(gateway_log)].stage = "supervisor"

\* a labelled section of the synthesis prompt holding the JSON of a record
Section(label, d) == <<label, "\n">> \o json_dumps(d) \o <<"\n", "\n">>

\* C28: the supervisor runs fifth, after the four specialists have each run
\* and have had their outputs merged, and the prompt it sends holds the JSON
\* text of the four output records as they stand in the run state then.
C28_SupervisorAfterJoin ==
    /\ \A i \in 1..Len(stages) :
          stages[i] = "supervisor" =>
             /\ i = 5
             /\ {stages[j] : j \in 1..4} = Specialists
    /\ SupervisorCalled =>
          /\ Len(stages) >= 5
          /\ LET prompt == sent[2].content
             IN  /\ IsInfix(Section("BRANDING ANALYSIS:", state.branding_output), prompt)
                 /\ IsInfix(Section("MARKETING ANALYSIS:", state.marketing_output), prompt)
                 /\ IsInfix(Section("PRODUCT ANALYSIS:", state.product_output), prompt)
                 /\ IsInfix(Section("TRENDS ANALYSIS:", state.trends_output), prompt)

\* the supervisor has sent its prompt after a run in which the search call
\* raised and the branding agent's reply was parsed
C28_Witness ==
    /\ SupervisorCalled
    /\ SearchHasRaised
    /\ state.trends_output = trends_error(search_log[1].err)
    /\ ~GatewayRaised("branding")
    /\ state.branding_output # PyDict(<<>>)

\* C29: the user prompt of the conversation a specialist agent sends holds
\* the product description and every persona reaction of the run state.
C29_PromptHasReactions ==
    (gateway_log # <<>> /\ gateway_log[Len(gateway_log)].stage \in Specialists) =>
        /\ IsInfix(state.product_description, sent[2].content)
        /\ \A i \in 1..Len(state.persona_reactions) :
              IsInfix(state.persona_reactions[i], sent[2].content)

\* the chat_llm calls a stage has made
CallsOf(stage) ==
    Cardinality({i \in 1..Len(gateway_log) : gateway_log[i].stage = stage})

\* C30 as stated: a finished run has made five chat_llm calls, one by each
\* stage, on every path.
C30_FiveCalls ==
    pc = "done" =>
        /\ Len(gateway_log) = 5
        /\ \A s \in Specialists \cup {"supervisor"} : CallsOf(s) = 1

\* C30, amended: no stage calls chat_llm more than once; a stage that has
\* run has called it exactly once, but for the trends agent, which calls it
\* once when the search call returned and not at all when the search call
\* raised; so a finished run has made five calls, or four when the search
\* call raised.
C30_OneCallPerStage ==
    /\ \A s \in Specialists \cup {"supervisor"} :
          CallsOf(s) = IF s \notin Ran THEN 0
                       ELSE IF s = "trends" /\ SearchHasRaised THEN 0
                       ELSE 1
    /\ pc = "done" =>
          Len(gateway_log) = IF SearchHasRaised THEN 4 ELSE 5

\* a finished run in which the search call raised: four calls, none by the
\* trends agent
C30_Witness ==
    /\ pc = "done"
    /\ SearchHasRaised
    /\ Len(gateway_log) = 4
    /\ CallsOf("trends") = 0
    /\ CallsOf("supervisor") = 1

\* the trends agent has called chat_llm
TrendsCalled == CallsOf("trends") = 1

\* C31: the trends agent, and no other stage, calls the search collaborator,
\* once: the query is the first 100 characters of the product description
\* (all of it when it is shorter) and days_back is 90; the agent calls
\* chat_llm only after the search call has returned, and the user prompt it
\* sends holds every returned snippet as a bullet.
C31_SearchThenGateway ==
    /\ Len(search_log) = IF "trends" \in Ran THEN 1 ELSE 0
    /\ \A i \in 1..Len(search_log) :
          LET q == search_log[i].query
              d == state.product_description
          IN  /\ Len(q) = IF Len(d) > 100 THEN 100 ELSE Len(d)
              /\ \A j \in 1..Len(q) : q[j] = d[j]
              /\ search_log[i].days_back = 90
    /\ TrendsCalled => search_log # <<>> /\ search_log[1].k = "return"
    /\ (TrendsCalled /\ gateway_log[Len(gateway_log)].stage = "trends") =>
          /\ sent[2].role = "user"
          /\ \A j \in 1..Len(search_log[1].results) :
                IsInfix(<<"- ">> \o search_log[1].results[j], sent[2].content)

\* the trends agent has sent its prompt after a search, with a description
\* of more than 100 characters, that returned a snippet
C31_Witness ==
    /\ TrendsCalled
    /\ gateway_log[Len(gateway_log)].stage = "trends"
    /\ Len(state.product_description) > 100
    /\ Len(search_log[1].query) = 100
    /\ search_log[1].results # <<>>

\* the i-th chat_llm call of the run returned the empty string
EmptyReply(i) == gateway_log[i].k = "return" /\ gateway_log[i].v = <<>>

\* C37: a 200 response whose JSON has no message, or a message with no
\* content, makes chat_llm return the empty string; a specialist agent that
\* gets the empty string writes its parse-fallback record (an empty advice
\* list, the placeholders, the search results or their placeholder), not an
\* error record, and the supervisor writes the empty string as final_report.
C37_EmptyContent ==
    /\ \A hm \in BOOLEAN, hc \in BOOLEAN :
          ~(hm /\ hc) =>
             chat_llm(<<HttpResponse(200, <<"{...}">>, hm, hc, <<"x">>)>>, model)
                = [k |-> "return", v |-> <<>>, delay |-> 0]
    /\ \A i \in 1..Len(gateway_log) :
          EmptyReply(i) =>
             LET s == gateway_log[i].stage
             IN  /\ s = "branding" =>
                       state.branding_output = OneList("branding_advice", <<>>)
                 /\ s = "marketing" =>
                       state.marketing_output
                          = TwoLists("marketing_plan", <<<<"No marketing plan generated">>>>,
                                     "pricing_tips", <<<<"No pricing tips generated">>>>)
                 /\ s = "product" =>
                       state.product_output
                          = TwoLists("feature_gaps", <<<<"No feature gaps identified">>>>,
                                     "quick_wins", <<<<"No quick wins identified">>>>)
                 /\ s = "trends" =>
                       state.trends_output
                          = OneList("trends",
                                    IF search_log[1].results # <<>>
                                    THEN search_log[1].results
                                    ELSE <<<<"No recent trends found">>>>)
                 /\ s = "supervisor" => state.final_report = <<>>

\* a finished run in which every chat_llm call returned the empty string
\* and the search had found a snippet
C37_Witness ==
    /\ pc = "done"
    /\ Len(gateway_log) = 5
    /\ \A i \in 1..5 : EmptyReply(i)
    /\ search_log[1].results # <<>>
    /\ state.final_report = <<>>

---------------------------------------------------------------------------
(* The four specialist agents run in any order and interleaving: each reads *)
(* the run state when it starts and its update is merged when it returns   *)

\* what a chat_llm call can do: return JSON, return text, raise
OracleReplies ==
    <<chat_llm(<<Ok200(ReplyJson)>>, <<"deepseek-r1", ":14b">>),
      chat_llm(<<Ok200(ReplyText)>>, <<"deepseek-r1", ":14b">>),
      chat_llm(<<HttpResponse(500, <<"internal error">>, FALSE, FALSE, <<>>)>>,
               <<"deepseek-r1", ":14b">>)>>

\* the seeds of the reply functions
Seeds == 0..2

SystemIndex(system) ==
    CASE system = <<"SYSTEM_BRANDING_AGENT">> -> 0
      [] system = <<"SYSTEM_MARKETING_AGENT">> -> 1
      [] system = <<"SYSTEM_PRODUCT_AGENT">> -> 2
      [] system = <<"SYSTEM_ONLINE_TRENDS_AGENT">> -> 3
      [] system = <<"SYSTEM_SUPERVISOR">> -> 4

\* a gateway whose reply depends only on the conversation sent: on the
\* system prompt and on the length of the user prompt
Oracle(seed, messages) ==
    OracleReplies[((seed + SystemIndex(messages[1].content)
                    + Len(messages[2].content)) % 3) + 1]

\* the specialist reads st: the conversation it sends and the update it returns
SpecialistSends(stage, st, so) ==
    IF stage = "trends" /\ so.k = "raise" THEN <<>>
    ELSE MessagesOf(stage, st, so.results)

SpecialistReturns(stage, st, so, seed) ==
    UpdateOf(stage, st, so, Oracle(seed, MessagesOf(stage, st, so.results)))

InitOrder ==
    /\ model = <<"deepseek-r1", ":14b">>
    /\ ExtractIdle
    /\ ChatIdle
    /\ RunIdle
    /\ AgentIdle
    /\ AppIdle
    /\ RunsIdle
    /\ order_pc = [s \in Specialists |-> "waiting"]
    /\ \E n \in 1..MaxPersonas :
          order_state = initial_state(Personas(n), <<"a", " ", "t", "o", "y">>, Reactions(n))
    /\ order_update = [s \in Specialists |-> <<>>]
    /\ order_sent = [s \in Specialists |-> <<>>]
    /\ order_search \in SearchOutcomes
    /\ order_seed \in Seeds
    /\ order_log = <<>>

\* a specialist starts: it reads the run state as it stands, sends its
\* conversation and has its update ready
StartSpecialist ==
    /\ \E s \in Specialists :
          /\ order_pc[s] = "waiting"
          /\ order_pc' = [order_pc EXCEPT ![s] = "running"]
          /\ order_log' = Append(order_log,
                [stage |-> s,
                 overlap |-> \E t \in Specialists : order_pc[t] = "running"])
          /\ order_sent' = [order_sent EXCEPT
                               ![s] = SpecialistSends(s, order_state, order_search)]
          /\ order_update' = [order_update EXCEPT
                                 ![s] = SpecialistReturns(s, order_state, order_search,
                                                          order_seed)]
    /\ UNCHANGED <<model, runsVars, extractVars, chatVars, runVars, agentVars, appVars,
                   order_state, order_search, order_seed>>

\* a specialist returns: its update is merged into the run state
MergeSpecialist ==
    /\ \E s \in Specialists :
          /\ order_pc[s] = "running"
          /\ order_pc' = [order_pc EXCEPT ![s] = "merged"]
          /\ order_state' = Merge(order_state, order_update[s])
    /\ UNCHANGED <<model, runsVars, extractVars, chatVars, runVars, agentVars, appVars,
                   order_update, order_sent, order_search, order_seed, order_log>>

NextOrder ==
    \/ StartSpecialist
    \/ MergeSpecialist

SpecOrder == InitOrder /\ [][NextOrder]_vars

\* the run state after the specialists of `order` have run one after
\* another from st, each merged before the next starts
RECURSIVE SequentialRun(_, _, _, _)
SequentialRun(order, st, so, seed) ==
    IF order = <<>> THEN st
    ELSE SequentialRun(Tail(order),
                       Merge(st, SpecialistReturns(Head(order), st, so, seed)),
                       so, seed)

\* the run state in which a specialist of the sequential order starts
RECURSIVE SequentialBefore(_, _, _, _, _)
SequentialBefore(stage, order, st, so, seed) ==
    IF Head(order) = stage THEN st
    ELSE SequentialBefore(stage, Tail(order),
                          Merge(st, SpecialistReturns(Head(order), st, so, seed)),
                          so, seed)

SequentialOrder == <<"branding", "marketing", "product", "trends">>

\* C32: whatever the order and interleaving in which the four specialists
\* start and are merged, each sends the conversation it sends in the order
\* branding, marketing, product, trends, and once all four are merged the
\* four output records (and the three inputs) are those of that order, for
\* a gateway whose reply depends only on the conversation and a fixed search
\* result.
C32_OrderIndependent ==
    LET start == Scrubbed(order_state)
        seq == SequentialRun(SequentialOrder, start, order_search, order_seed)
    IN  /\ \A s \in Specialists :
              order_pc[s] # "waiting" =>
                 /\ order_sent[s]
                       = SpecialistSends(s, SequentialBefore(s, SequentialOrder, start,
                                                             order_search, order_seed),
                                         order_search)
                 /\ order_update[s][OutputField(s)] = seq[OutputField(s)]
        /\ (\A s \in Specialists : order_pc[s] = "merged") => order_state = seq

\* all four are merged after they started in the reverse order, marketing
\* and branding while another specialist was running, with records that are
\* not all alike
C32_Witness ==
    /\ \A s \in Specialists : order_pc[s] = "merged"
    /\ [i \in 1..Len(order_log) |-> order_log[i].stage]
          = <<"trends", "product", "marketing", "branding">>
    /\ order_log[3].overlap
    /\ order_log[4].overlap
    /\ order_sent["trends"] # <<>>
    /\ order_state.branding_output # order_state.marketing_output
    /\ order_state.product_output # order_state.trends_output
    /\ \A f \in OutputFields : order_state[f] # PyDict(<<>>)

---------------------------------------------------------------------------
(* Two calls of run_agent_analysis, one after the other or interleaved      *)
(* stage by stage, against the same gateway and search collaborator        *)

Runs == {1, 2}

\* the other run
Other(r) == 3 - r

\* an AgentState(...) at an address that an earlier call already uses
allocate_Shared(heap) == 1

\* AgentState(...): a new object at an address not in use
allocate(heap) == Len(heap) + 1

\* the heap with object obj at address a
Store(heap, a, obj) ==
    [b \in 1..(IF a > Len(heap) THEN a ELSE Len(heap)) |->
        IF b = a THEN obj ELSE heap[b]]

\* the update a node returns from the run state st
NodeReturns(stage, st, so, seed) ==
    IF stage = "supervisor"
    THEN supervisor_agent(st, Oracle(seed, supervisor_messages(st))).update
    ELSE SpecialistReturns(stage, st, so, seed)

\* the arguments of the two calls
RunInputs ==
    {<<initial_state(Personas(1), <<"a", " ", "t", "o", "y">>, Reactions(1)),
       initial_state(Personas(n), <<"b", "i", "k", "e">>, Reactions(n))>> :
        n \in 1..MaxPersonas}

InitRuns ==
    /\ model = <<"deepseek-r1", ":14b">>
    /\ ExtractIdle
    /\ ChatIdle
    /\ RunIdle
    /\ AgentIdle
    /\ AppIdle
    /\ OrderIdle
    /\ runs_pc = [r \in Runs |-> "idle"]
    /\ runs_ref = [r \in Runs |-> 0]
    /\ runs_heap = <<>>
    /\ runs_ret = [r \in Runs |-> <<>>]
    /\ runs_overlap = [r \in Runs |-> FALSE]
    /\ \E inputs \in RunInputs, so \in SearchOutcomes, seed \in Seeds :
          runs_env = [inputs |-> inputs, search |-> so, seed |-> seed]

\* the other run has started and not finished
UnderWay(r) == runs_pc[r] \notin {"idle", "done"}

\* run_agent_analysis is called: initial_state = AgentState(...)
StartRun ==
    /\ \E r \in Runs :
          /\ runs_pc[r] = "idle"
          /\ runs_ref' = [runs_ref EXCEPT ![r] = allocate(runs_heap)]
          /\ runs_heap' = Store(runs_heap, allocate(runs_heap),
                                initial_state(runs_env.inputs[r].personas,
                                              runs_env.inputs[r].product_description,
                                              runs_env.inputs[r].persona_reactions))
          /\ runs_pc' = [runs_pc EXCEPT ![r] = entry_point]
    /\ UNCHANGED <<model, extractVars, chatVars, runVars, agentVars, appVars, orderVars,
                   runs_ret, runs_overlap, runs_env>>

\* a run executes its next node on its state and the update is merged
RunStage ==
    /\ \E r \in Runs :
          /\ runs_pc[r] \in {"branding", "marketing", "product", "trends", "supervisor"}
          /\ runs_heap' = Store(runs_heap, runs_ref[r],
                                Merge(runs_heap[runs_ref[r]],
                                      NodeReturns(runs_pc[r], runs_heap[runs_ref[r]],
                                                  runs_env.search, runs_env.seed)))
          /\ runs_pc' = [runs_pc EXCEPT ![r] = NextNode(runs_pc[r])]
          /\ runs_overlap' = [runs_overlap EXCEPT ![r] = @ \/ UnderWay(Other(r))]
    /\ UNCHANGED <<model, extractVars, chatVars, runVars, agentVars, appVars, orderVars,
                   runs_ref, runs_ret, runs_env>>

\* return result.get("final_report", "No report generated")
FinishRun ==
    /\ \E r \in Runs :
          /\ runs_pc[r] = "END"
          /\ runs_ret' = [runs_ret EXCEPT ![r] = final_result(runs_heap[runs_ref[r]])]
          /\ runs_pc' = [runs_pc EXCEPT ![r] = "done"]
    /\ UNCHANGED <<model, extractVars, chatVars, runVars, agentVars, appVars, orderVars,
                   runs_ref, runs_heap, runs_overlap, runs_env>>

NextRuns ==
    \/ StartRun
    \/ RunStage
    \/ FinishRun

SpecRuns == InitRuns /\ [][NextRuns]_vars

\* the run state of a call that runs alone, after the nodes of `order`
RECURSIVE SoloRun(_, _, _, _)
SoloRun(order, st, so, seed) ==
    IF order = <<>> THEN st
    ELSE SoloRun(Tail(order), Merge(st, NodeReturns(Head(order), st, so, seed)),
                 so, seed)

\* the nodes a run has executed
NodesRun(at) ==
    CASE at = "branding" -> <<>>
      [] at = "marketing" -> SubSeq(StageOrder, 1, 1)
      [] at = "product" -> SubSeq(StageOrder, 1, 2)
      [] at = "trends" -> SubSeq(StageOrder, 1, 3)
      [] at = "supervisor" -> SubSeq(StageOrder, 1, 4)
      [] at \in {"END", "done"} -> StageOrder

\* C38: two calls of run_agent_analysis have two run states; a call starts
\* with the three inputs it was given, the four output records empty and
\* final_report empty, and at every moment the state of a run is the state
\* it has when it runs alone, whatever the other run does before or in
\* between; so is the report it returns.
C38_RunsAreIsolated ==
    /\ (runs_ref[1] # 0 /\ runs_ref[2] # 0) => runs_ref[1] # runs_ref[2]
    /\ \A r \in Runs :
          runs_pc[r] # "idle" =>
             LET alone == SoloRun(NodesRun(runs_pc[r]),
                                  Scrubbed(runs_env.inputs[r]),
                                  runs_env.search, runs_env.seed)
             IN  /\ runs_heap[runs_ref[r]] = alone
                 /\ runs_pc[r] = entry_point =>
                       /\ \A f \in OutputFields : runs_heap[runs_ref[r]][f] = PyDict(<<>>)
                       /\ runs_heap[runs_ref[r]].final_report = <<>>
                 /\ runs_pc[r] = "done" => runs_ret[r] = final_result(alone)

\* both runs have finished after running stages in between each other's,
\* with different reports
C38_Witness ==
    /\ runs_pc[1] = "done"
    /\ runs_pc[2] = "done"
    /\ runs_overlap[1]
    /\ runs_overlap[2]
    /\ runs_ret[1] # runs_ret[2]
    /\ runs_ret[1] # <<>>

===========================================================================
